---- MODULE Spec2Model ----
(***************************************************************************)
(* Conversation workflow engine of the WhatsApp/SMS support chatbot        *)
(* (chatbot/whatssms_service.py, message_classifier.py, llama_helper.py).  *)
(*                                                                         *)
(* A text is a sequence of fragments (strings).  Texts the code inspects   *)
(* character by character (inbound messages, phone numbers, keywords,      *)
(* client names) are sequences of one-character strings; the fixed parts   *)
(* of replies, which the code only copies, are single fragments.           *)
(* An Optional[x] value is a sequence of length 0 (None) or 1 (the value). *)
(* Confidences are counted in tenths (0.8 is 8).                           *)
(* created_at / updated_at / turn timestamps are not part of the model.    *)
(*                                                                         *)
(* Handling calls overlap: each is a coroutine that gives way at its store *)
(* requests (find_one, insert_one, replace_one).  One action is what a     *)
(* call does from one store request to the next; what lies between two     *)
(* requests touches only the call's own copy of the record.                *)
(***************************************************************************)
EXTENDS Integers, Sequences, FiniteSets, TLC

(***************************************************************************)
(* Bounds                                                                  *)
(***************************************************************************)
\* handling calls started in one behaviour
MaxCalls == 2

(***************************************************************************)
(* Character level helpers (Python str / re semantics on ASCII text)       *)
(***************************************************************************)
DigitChars == {"0", "1", "2", "3", "4", "5", "6", "7", "8", "9"}

LowerChars ==
    {"a", "b", "c", "d", "e", "f", "g", "h", "i", "j", "k", "l", "m",
     "n", "o", "p", "q", "r", "s", "t", "u", "v", "w", "x", "y", "z"}

UpperToLower ==
    [c \in {"A", "B", "C", "D", "E", "F", "G", "H", "I", "J", "K", "L", "M",
            "N", "O", "P", "Q", "R", "S", "T", "U", "V", "W", "X", "Y", "Z"} |->
       CASE c = "A" -> "a" [] c = "B" -> "b" [] c = "C" -> "c" [] c = "D" -> "d"
         [] c = "E" -> "e" [] c = "F" -> "f" [] c = "G" -> "g" [] c = "H" -> "h"
         [] c = "I" -> "i" [] c = "J" -> "j" [] c = "K" -> "k" [] c = "L" -> "l"
         [] c = "M" -> "m" [] c = "N" -> "n" [] c = "O" -> "o" [] c = "P" -> "p"
         [] c = "Q" -> "q" [] c = "R" -> "r" [] c = "S" -> "s" [] c = "T" -> "t"
         [] c = "U" -> "u" [] c = "V" -> "v" [] c = "W" -> "w" [] c = "X" -> "x"
         [] c = "Y" -> "y" [] c = "Z" -> "z"]

SpaceChars == {" ", "\t", "\n", "\r"}

\* \w of the regular expressions
WordChars == LowerChars \cup DOMAIN UpperToLower \cup DigitChars \cup {"_"}

\* str.lower()
LowerChar(c) == IF c \in DOMAIN UpperToLower THEN UpperToLower[c] ELSE c

Lower(s) == SubSeq([i \in 1..Len(s) |-> LowerChar(s[i])], 1, Len(s))

\* str.strip()
RECURSIVE LStrip(_)
LStrip(s) == IF s # <<>> /\ Head(s) \in SpaceChars THEN LStrip(Tail(s)) ELSE s

RECURSIVE RStrip(_)
RStrip(s) == IF s # <<>> /\ s[Len(s)] \in SpaceChars THEN RStrip(SubSeq(s, 1, Len(s) - 1)) ELSE s

Strip(s) == RStrip(LStrip(s))

\* str.startswith
StartsWith(s, pre) == Len(s) >= Len(pre) /\ SubSeq(s, 1, Len(pre)) = pre

\* sub in s
Contains(s, sub) ==
    \E i \in 1..(Len(s) - Len(sub) + 1) : SubSeq(s, i, i + Len(sub) - 1) = sub

\* re.search(r'\b(w)\b', s) for a keyword w that starts and ends with a letter
WordMatch(s, w) ==
    \E i \in 1..(Len(s) - Len(w) + 1) :
        /\ SubSeq(s, i, i + Len(w) - 1) = w
        /\ (i = 1 \/ s[i - 1] \notin WordChars)
        /\ (i + Len(w) - 1 = Len(s) \/ s[i + Len(w)] \notin WordChars)

IsPrefix(s, t) == Len(s) <= Len(t) /\ SubSeq(t, 1, Len(s)) = s

(***************************************************************************)
(* Keyword tables                                                          *)
(***************************************************************************)
pricing_patterns ==
    << <<"p", "r", "i", "c", "e">>,
       <<"c", "o", "s", "t">>,
       <<"b", "u", "d", "g", "e", "t">>,
       <<"e", "x", "p", "e", "n", "s", "i", "v", "e">>,
       <<"c", "h", "e", "a", "p">>,
       <<"a", "f", "f", "o", "r", "d", "a", "b", "l", "e">>,
       <<"h", "o", "w", " ", "m", "u", "c", "h">>,
       <<"p", "r", "i", "c", "i", "n", "g">>,
       <<"q", "u", "o", "t", "e">>,
       <<"e", "s", "t", "i", "m", "a", "t", "e">>,
       <<"f", "e", "e">>,
       <<"c", "h", "a", "r", "g", "e">>,
       <<"p", "a", "y", "m", "e", "n", "t">>,
       <<"m", "o", "n", "e", "y">>,
       <<"d", "o", "l", "l", "a", "r">>,
       <<"r", "u", "p", "e", "e">>,
       <<"c", "o", "s", "t", "s">>,
       <<"r", "a", "t", "e">>,
       <<"r", "a", "t", "e", "s">>,
       <<"t", "a", "r", "i", "f", "f">>,
       <<"t", "a", "r", "i", "f", "f", "s">> >>

support_patterns ==
    << <<"h", "e", "l", "p">>,
       <<"s", "u", "p", "p", "o", "r", "t">>,
       <<"i", "s", "s", "u", "e">>,
       <<"p", "r", "o", "b", "l", "e", "m">>,
       <<"e", "r", "r", "o", "r">>,
       <<"b", "u", "g">>,
       <<"f", "i", "x">>,
       <<"n", "o", "t", " ", "w", "o", "r", "k", "i", "n", "g">>,
       <<"b", "r", "o", "k", "e", "n">>,
       <<"d", "o", "w", "n">>,
       <<"t", "r", "o", "u", "b", "l", "e">>,
       <<"d", "i", "f", "f", "i", "c", "u", "l", "t", "y">>,
       <<"h", "o", "w", " ", "t", "o">>,
       <<"h", "o", "w", " ", "d", "o">>,
       <<"t", "u", "t", "o", "r", "i", "a", "l">>,
       <<"g", "u", "i", "d", "e">>,
       <<"i", "n", "s", "t", "r", "u", "c", "t", "i", "o", "n", "s">>,
       <<"c", "o", "m", "p", "l", "a", "i", "n", "t">>,
       <<"c", "o", "m", "p", "l", "a", "i", "n", "t", "s">>,
       <<"d", "i", "s", "s", "a", "t", "i", "s", "f", "i", "e", "d">>,
       <<"u", "n", "h", "a", "p", "p", "y">> >>

general_patterns ==
    << <<"t", "h", "a", "n", "k">>,
       <<"t", "h", "a", "n", "k", "s">>,
       <<"a", "p", "p", "r", "e", "c", "i", "a", "t", "e">>,
       <<"g", "r", "a", "t", "e", "f", "u", "l">>,
       <<"i", "n", "f", "o", "r", "m", "a", "t", "i", "o", "n">>,
       <<"i", "n", "f", "o">>,
       <<"d", "e", "t", "a", "i", "l", "s">>,
       <<"m", "o", "r", "e">>,
       <<"c", "o", "n", "t", "a", "c", "t">>,
       <<"r", "e", "a", "c", "h">>,
       <<"g", "e", "t", " ", "i", "n", " ", "t", "o", "u", "c", "h">> >>

greeting_pattern ==
    << <<"h", "e", "l", "l", "o">>,
       <<"h", "i">>,
       <<"h", "e", "y">>,
       <<"g", "o", "o", "d", " ", "m", "o", "r", "n", "i", "n", "g">>,
       <<"g", "o", "o", "d", " ", "a", "f", "t", "e", "r", "n", "o", "o", "n">>,
       <<"g", "o", "o", "d", " ", "e", "v", "e", "n", "i", "n", "g">> >>

escalation_keywords ==
    << <<"t", "e", "a", "m", " ", "r", "e", "a", "c", "h", " ", "o", "u", "t">>,
       <<"c", "o", "n", "t", "a", "c", "t", " ", "m", "e">>,
       <<"c", "a", "l", "l", " ", "m", "e">>,
       <<"r", "e", "a", "c", "h", " ", "o", "u", "t">>,
       <<"t", "e", "a", "m", " ", "c", "o", "n", "t", "a", "c", "t">>,
       <<"s", "p", "e", "a", "k", " ", "w", "i", "t", "h", " ", "t", "e", "a", "m">>,
       <<"t", "a", "l", "k", " ", "t", "o", " ", "t", "e", "a", "m">>,
       <<"t", "e", "a", "m", " ", "c", "a", "l", "l">>,
       <<"c", "o", "n", "t", "a", "c", "t", " ", "t", "e", "a", "m">>,
       <<"t", "e", "a", "m", " ", "r", "e", "a", "c", "h">> >>

completion_keywords ==
    << <<"f", "i", "n", "a", "l", "i", "z", "e">>,
       <<"c", "o", "m", "p", "l", "e", "t", "e">>,
       <<"d", "o", "n", "e">>,
       <<"f", "i", "n", "i", "s", "h", "e", "d">>,
       <<"r", "e", "a", "d", "y">>,
       <<"p", "r", "o", "c", "e", "e", "d">>,
       <<"s", "t", "a", "r", "t", " ", "p", "r", "o", "j", "e", "c", "t">>,
       <<"b", "e", "g", "i", "n">>,
       <<"g", "o", " ", "a", "h", "e", "a", "d">>,
       <<"c", "o", "n", "f", "i", "r", "m">>,
       <<"a", "p", "p", "r", "o", "v", "e">>,
       <<"t", "h", "a", "t", "'", "s", " ", "a", "l", "l">>,
       <<"t", "h", "a", "t", "'", "s", " ", "i", "t">>,
       <<"n", "o", "t", "h", "i", "n", "g", " ", "e", "l", "s", "e">>,
       <<"p", "e", "r", "f", "e", "c", "t">>,
       <<"s", "o", "u", "n", "d", "s", " ", "g", "o", "o", "d">> >>

(***************************************************************************)
(* Inputs                                                                  *)
(***************************************************************************)
MsgHi == <<"H", "i">>
MsgName == <<" ", "A", "l", " ">>
MsgHelp == <<" ", "h", "e", "l", "p", " ">>
MsgCost == <<"h", "o", "w", " ", "m", "u", "c", "h", " ", "d", "o", "e", "s", " ", "i", "t", " ", "c", "o", "s", "t">>
MsgContact == <<"c", "o", "n", "t", "a", "c", "t", " ", "m", "e">>
MsgProceed == <<"s", "o", "u", "n", "d", "s", " ", "g", "o", "o", "d", ",", " ", "l", "e", "t", "'", "s", " ", "p", "r", "o", "c", "e", "e", "d">>
MsgUnknown == <<"U", "n", "k", "n", "o", "w", "n">>

\* inbound message texts
Messages == {MsgHelp, MsgCost, MsgContact, MsgProceed, MsgUnknown}

RawLocal == <<"0", "3", "0", "0", "1", "1", "1", "2", "2", "3", "3">>

RawE164 == <<"+", "9", "2", "3", "0", "0", "1", "1", "1", "2", "2", "3", "3">>

RawNoPlus == <<"9", "2", "3", "0", "0", "1", "1", "1", "2", "2", "3", "3">>

RawTen == <<"3", "0", "0", "1", "1", "1", "2", "2", "3", "3">>

\* sender numbers as the gateway presents them
Phones == {RawLocal}

\* four spellings of the one number, as different gateways present it
Spellings == {RawE164, RawNoPlus, RawLocal, RawTen}

\* concurrent handling calls
Procs == {"h1", "h2"}

\* what the completion API does with one request: an answer or a failure
\* (a missing key and an exception differ from the HTTP error in the wording
\* of the apology only)
Upstream == {"ok", "http_error"}

\* what happens to one team alert
AlertOutcomes == {"sent", "failed", "raised"}

None == <<>>
Some(x) == <<x>>
IsNone(o) == o = <<>>
Get(o) == o[1]

(***************************************************************************)
(* Phone Normalizer                                                        *)
(***************************************************************************)
IsDigit(c) == c \in DigitChars

\* faulty variant: the local form keeps its leading 0 behind the country code
normalize_to_e164_keeps_zero(phone_number) ==
    IF phone_number = <<>> THEN phone_number
    ELSE LET digits == SelectSeq(phone_number, IsDigit) IN
         IF StartsWith(digits, <<"9", "2">>) /\ Len(digits) >= 12
           THEN <<"+">> \o digits
         ELSE IF StartsWith(digits, <<"0">>) /\ Len(digits) = 11
           THEN <<"+", "9", "2">> \o digits
         ELSE IF Len(digits) = 10
           THEN <<"+", "9", "2">> \o digits
         ELSE <<"+">> \o digits

\* faulty variant: a number of any other shape is taken for a local one and gets +92 in front
normalize_to_e164_assumes_local(phone_number) ==
    IF phone_number = <<>> THEN phone_number
    ELSE LET digits == SelectSeq(phone_number, IsDigit) IN
         IF StartsWith(digits, <<"9", "2">>) /\ Len(digits) >= 12
           THEN <<"+">> \o digits
         ELSE IF StartsWith(digits, <<"0">>) /\ Len(digits) = 11
           THEN <<"+", "9", "2">> \o Tail(digits)
         ELSE <<"+", "9", "2">> \o digits

normalize_to_e164(phone_number) ==
    IF phone_number = <<>> THEN phone_number
    ELSE LET digits == SelectSeq(phone_number, IsDigit) IN
         IF StartsWith(digits, <<"9", "2">>) /\ Len(digits) >= 12
           THEN <<"+">> \o digits
         ELSE IF StartsWith(digits, <<"0">>) /\ Len(digits) = 11
           THEN <<"+", "9", "2">> \o Tail(digits)
         ELSE IF Len(digits) = 10
           THEN <<"+", "9", "2">> \o digits
         ELSE <<"+">> \o digits

(***************************************************************************)
(* Message Classifier                                                      *)
(***************************************************************************)
matches_patterns(message, patterns) ==
    \E k \in 1..Len(patterns) : WordMatch(message, patterns[k])

\* faulty variant: the support patterns are tried before the pricing patterns
classify_message_support_first(message) ==
    LET message_lower == Strip(Lower(message)) IN
    IF matches_patterns(message_lower, support_patterns)
      THEN [type |-> "support",
            response |-> <<"I'm here to help. Could you share more details about the issue?">>,
            confidence |-> 8]
    ELSE IF matches_patterns(message_lower, pricing_patterns)
      THEN [type |-> "pricing",
            response |-> <<"Our pricing starts from $99. Would you like the full details?">>,
            confidence |-> 9]
    ELSE IF matches_patterns(message_lower, general_patterns)
      THEN [type |-> "general",
            response |-> <<"Thanks for your message! Our team will respond shortly.">>,
            confidence |-> 7]
    ELSE IF matches_patterns(message_lower, greeting_pattern)
      THEN [type |-> "greeting",
            response |-> <<"Hello ", "(waving hand)", " How can I help you today?">>,
            confidence |-> 9]
    ELSE [type |-> "other",
          response |-> <<"Thanks for your message! Our team will respond shortly.">>,
          confidence |-> 5]

classify_message(message) ==
    LET message_lower == Strip(Lower(message)) IN
    IF matches_patterns(message_lower, pricing_patterns)
      THEN [type |-> "pricing",
            response |-> <<"Our pricing starts from $99. Would you like the full details?">>,
            confidence |-> 9]
    ELSE IF matches_patterns(message_lower, support_patterns)
      THEN [type |-> "support",
            response |-> <<"I'm here to help. Could you share more details about the issue?">>,
            confidence |-> 8]
    ELSE IF matches_patterns(message_lower, general_patterns)
      THEN [type |-> "general",
            response |-> <<"Thanks for your message! Our team will respond shortly.">>,
            confidence |-> 7]
    ELSE IF matches_patterns(message_lower, greeting_pattern)
      THEN [type |-> "greeting",
            response |-> <<"Hello ", "(waving hand)", " How can I help you today?">>,
            confidence |-> 9]
    ELSE [type |-> "other",
          response |-> <<"Thanks for your message! Our team will respond shortly.">>,
          confidence |-> 5]

(***************************************************************************)
(* Completion Client and keyword checks (llama_helper.py)                  *)
(***************************************************************************)
GeneratedReply == <<"(generated reply)">>

SYSTEM_PROMPT == <<"(system prompt)">>

\* the "messages" of the request payload: the system prompt, the history with
\* client turns as user and assistant turns as assistant, the current message
formatted_messages(conversation_history, user_message) ==
    LET kept == SelectSeq(conversation_history,
                          LAMBDA msg : msg.role \in {"client", "assistant"})
        messages == [i \in 1..Len(kept) |->
                        [role |-> IF kept[i].role = "client" THEN "user" ELSE "assistant",
                         content |-> kept[i].message]]
    IN <<[role |-> "system", content |-> SYSTEM_PROMPT]>> \o messages
         \o <<[role |-> "user", content |-> user_message]>>

NoKeyApology ==
    <<"I'm sorry, I'm having trouble connecting to my AI service right now. Please try again later.">>

HttpErrorApology ==
    <<"I'm sorry, I'm having trouble processing your message right now. Please try again later.">>

ExceptionApology ==
    <<"I'm sorry, I encountered an error while processing your message. Please try again later.">>

get_llama_response(conversation_history, user_message, upstream) ==
    IF upstream = "no_key" THEN NoKeyApology
    ELSE IF upstream = "ok" THEN GeneratedReply
    ELSE IF upstream = "http_error" THEN HttpErrorApology
    ELSE ExceptionApology

check_for_completion_keywords(message) ==
    LET message_lower == Lower(message) IN
    \E k \in 1..Len(completion_keywords) : Contains(message_lower, completion_keywords[k])

wants_team_contact(message_content) ==
    LET message_lower == Lower(message_content) IN
    \E k \in 1..Len(escalation_keywords) : Contains(message_lower, escalation_keywords[k])

(***************************************************************************)
(* Conversation records                                                    *)
(***************************************************************************)
\* the limit of the message budget
MESSAGE_LIMIT == 20

\* confidence from which the canned reply of the classifier is used (0.8)
CONFIDENCE_THRESHOLD == 8

UNKNOWN == <<"U", "n", "k", "n", "o", "w", "n">>

ConversationMessage(role, message) == [role |-> role, message |-> message]

\* WhatsAppConversation(phone_number=..., conversation=[], status="pending", messages_used=0)
NewConversation(normalized_phone) ==
    [id |-> None, client_name |-> None, phone_number |-> normalized_phone,
     conversation |-> <<>>, status |-> "pending", messages_used |-> 0]

\* conversation.dict(by_alias=True) with "_id" set to key
ToDocument(conversation, key) ==
    [id |-> key, client_name |-> conversation.client_name,
     phone_number |-> conversation.phone_number,
     conversation |-> conversation.conversation,
     status |-> conversation.status, messages_used |-> conversation.messages_used]

\* faulty variant: the status of a stored document is not read back
FromDocumentStatusDefault(doc) ==
    [id |-> Some(doc.id), client_name |-> doc.client_name,
     phone_number |-> doc.phone_number, conversation |-> doc.conversation,
     status |-> "pending", messages_used |-> doc.messages_used]

\* WhatsAppConversation(id=doc["_id"], client_name=doc.get("client_name"), ...)
FromDocument(doc) ==
    [id |-> Some(doc.id), client_name |-> doc.client_name,
     phone_number |-> doc.phone_number, conversation |-> doc.conversation,
     status |-> doc.status, messages_used |-> doc.messages_used]

\* Python truthiness of an Optional[str]: None and "" are false
Falsy(client_name) == IsNone(client_name) \/ Get(client_name) = <<>>

(***************************************************************************)
(* The decision ladder of handle_incoming_message                          *)
(***************************************************************************)
NameRequest == <<"Hello! What is your name, sir?">>

Personalized(client_name) ==
    <<"Nice to meet you, ">> \o client_name
      \o <<"! I'm here to help you with your project requirements. What type of app or website are you looking to build?">>

ContactReply == <<"Perfect! I'll have our team reach out to you shortly to discuss your project requirements in detail.">>

FinalizedReply == <<"Great! Your project description has been saved. Our team will reach out to you soon.">>

LimitReply == <<"You've reached the message limit. Our team will contact you shortly.">>

\* faulty variant: the client turn is appended but the counter is not raised before the ladder
AddClientMessageNoCount(conversation, message_content) ==
    [conversation EXCEPT
       !.conversation = Append(@, ConversationMessage("client", message_content))]

\* faulty variant: the counter is raised but the client turn is not appended
AddClientMessageCountOnly(conversation, message_content) ==
    [conversation EXCEPT !.messages_used = @ + 1]

\* the client turn is appended and the counter raised before the ladder
AddClientMessage(conversation, message_content) ==
    [conversation EXCEPT
       !.conversation = Append(@, ConversationMessage("client", message_content)),
       !.messages_used = @ + 1]

\* faulty variant: the budget check is made before the escalation and completion checks
SelectRungLimitFirst(conversation, message_content, classification) ==
    IF Falsy(conversation.client_name) /\ conversation.messages_used = 1 THEN 1
    ELSE IF Falsy(conversation.client_name) \/ conversation.client_name = Some(UNKNOWN) THEN 2
    ELSE IF classification.confidence >= CONFIDENCE_THRESHOLD THEN 3
    ELSE IF conversation.messages_used >= MESSAGE_LIMIT THEN 6
    ELSE IF wants_team_contact(message_content) THEN 4
    ELSE IF check_for_completion_keywords(message_content) THEN 5
    ELSE 7

\* faulty variant: the classifier is consulted before the name is collected
SelectRungClassifierFirst(conversation, message_content, classification) ==
    IF Falsy(conversation.client_name) /\ conversation.messages_used = 1 THEN 1
    ELSE IF classification.confidence >= CONFIDENCE_THRESHOLD THEN 3
    ELSE IF Falsy(conversation.client_name) \/ conversation.client_name = Some(UNKNOWN) THEN 2
    ELSE IF wants_team_contact(message_content) THEN 4
    ELSE IF check_for_completion_keywords(message_content) THEN 5
    ELSE IF conversation.messages_used >= MESSAGE_LIMIT THEN 6
    ELSE 7

\* faulty variant: the budget is exhausted only when the counter has passed the limit
SelectRungLimitAfter(conversation, message_content, classification) ==
    IF Falsy(conversation.client_name) /\ conversation.messages_used = 1 THEN 1
    ELSE IF Falsy(conversation.client_name) \/ conversation.client_name = Some(UNKNOWN) THEN 2
    ELSE IF classification.confidence >= CONFIDENCE_THRESHOLD THEN 3
    ELSE IF wants_team_contact(message_content) THEN 4
    ELSE IF check_for_completion_keywords(message_content) THEN 5
    ELSE IF conversation.messages_used > MESSAGE_LIMIT THEN 6
    ELSE 7

\* the if/elif chain: the number of the branch taken
SelectRung(conversation, message_content, classification) ==
    IF Falsy(conversation.client_name) /\ conversation.messages_used = 1 THEN 1
    ELSE IF Falsy(conversation.client_name) \/ conversation.client_name = Some(UNKNOWN) THEN 2
    ELSE IF classification.confidence >= CONFIDENCE_THRESHOLD THEN 3
    ELSE IF wants_team_contact(message_content) THEN 4
    ELSE IF check_for_completion_keywords(message_content) THEN 5
    ELSE IF conversation.messages_used >= MESSAGE_LIMIT THEN 6
    ELSE 7

\* str.title() of the two roles a turn can have
Title(role) == IF role = "client" THEN "Client" ELSE "Assistant"

\* faulty variant: the summary renders the turns stored before the call only
format_conversation_summary_prior(conversation) ==
    [client_name |-> conversation.client_name,
     phone_number |-> conversation.phone_number,
     messages_used |-> conversation.messages_used,
     status |-> conversation.status,
     lines |-> [i \in 1..(Len(conversation.conversation) - 1) |->
                  LET msg == conversation.conversation[i] IN
                    [role_emoji |-> IF msg.role = "client" THEN "(bust)" ELSE "(robot)",
                     role |-> Title(msg.role),
                     message |-> msg.message]]]

\* the summary text: four header lines, then one line per turn in list order
format_conversation_summary(conversation) ==
    [client_name |-> conversation.client_name,
     phone_number |-> conversation.phone_number,
     messages_used |-> conversation.messages_used,
     status |-> conversation.status,
     lines |-> [i \in 1..Len(conversation.conversation) |->
                  LET msg == conversation.conversation[i] IN
                    [role_emoji |-> IF msg.role = "client" THEN "(bust)" ELSE "(robot)",
                     role |-> Title(msg.role),
                     message |-> msg.message]]]

\* the arguments of notify_team: the headline (kind), what follows it in the
\* message, the client's number as the call received it, the stored name
TeamAlert(kind, message, phone_number, client_name) ==
    [kind |-> kind, message |-> message, phone_number |-> phone_number,
     client_name |-> client_name]

\* faulty variant: the history handed over includes the inbound turn just appended
conversation_history_whole(conversation) ==
    [i \in 1..Len(conversation.conversation) |->
        [role |-> conversation.conversation[i].role,
         message |-> conversation.conversation[i].message]]

\* the history handed to the Completion Client: every turn but the last
conversation_history(conversation) ==
    [i \in 1..(Len(conversation.conversation) - 1) |->
        [role |-> conversation.conversation[i].role,
         message |-> conversation.conversation[i].message]]

\* faulty variant: every canned reply of the classifier raises the pricing alert
ApplyRungAlertsEveryClass(r, conversation, phone_number, message_content, classification, upstream) ==
    CASE r = 1 ->
           [conversation |-> [conversation EXCEPT !.client_name = Some(UNKNOWN)],
            response_message |-> NameRequest,
            notify |-> None]
      [] r = 2 ->
           [conversation |-> [conversation EXCEPT !.client_name = Some(Strip(message_content))],
            response_message |-> Personalized(Strip(message_content)),
            notify |-> None]
      [] r = 3 ->
           [conversation |-> conversation,
            response_message |-> classification.response,
            notify |-> Some(TeamAlert("pricing", [text |-> message_content],
                                      phone_number, conversation.client_name))]
      [] r = 4 ->
           [conversation |-> conversation,
            response_message |-> ContactReply,
            notify |-> Some(TeamAlert("contact", [text |-> message_content],
                                      phone_number, conversation.client_name))]
      [] r = 5 ->
           LET finalized == [conversation EXCEPT !.status = "finalized"] IN
           [conversation |-> finalized,
            response_message |-> FinalizedReply,
            notify |-> Some(TeamAlert("finalized",
                                      [summary |-> format_conversation_summary(finalized)],
                                      phone_number, conversation.client_name))]
      [] r = 6 ->
           [conversation |-> conversation,
            response_message |-> LimitReply,
            notify |-> Some(TeamAlert("limit", [messages_used |-> conversation.messages_used],
                                      phone_number, conversation.client_name))]
      [] OTHER ->
           [conversation |-> conversation,
            response_message |->
                get_llama_response(conversation_history(conversation),
                                   message_content, upstream),
            notify |-> None]

\* the body of the branch taken: the record after it, the reply and the
\* team alert it sends (None when it sends none)
ApplyRung(r, conversation, phone_number, message_content, classification, upstream) ==
    CASE r = 1 ->
           [conversation |-> [conversation EXCEPT !.client_name = Some(UNKNOWN)],
            response_message |-> NameRequest,
            notify |-> None]
      [] r = 2 ->
           [conversation |-> [conversation EXCEPT !.client_name = Some(Strip(message_content))],
            response_message |-> Personalized(Strip(message_content)),
            notify |-> None]
      [] r = 3 ->
           [conversation |-> conversation,
            response_message |-> classification.response,
            notify |-> IF classification.type = "pricing"
                         THEN Some(TeamAlert("pricing", [text |-> message_content],
                                             phone_number, conversation.client_name))
                         ELSE None]
      [] r = 4 ->
           [conversation |-> conversation,
            response_message |-> ContactReply,
            notify |-> Some(TeamAlert("contact", [text |-> message_content],
                                      phone_number, conversation.client_name))]
      [] r = 5 ->
           LET finalized == [conversation EXCEPT !.status = "finalized"] IN
           [conversation |-> finalized,
            response_message |-> FinalizedReply,
            notify |-> Some(TeamAlert("finalized",
                                      [summary |-> format_conversation_summary(finalized)],
                                      phone_number, conversation.client_name))]
      [] r = 6 ->
           [conversation |-> conversation,
            response_message |-> LimitReply,
            notify |-> Some(TeamAlert("limit", [messages_used |-> conversation.messages_used],
                                      phone_number, conversation.client_name))]
      [] OTHER ->
           [conversation |-> conversation,
            response_message |->
                get_llama_response(conversation_history(conversation),
                                   message_content, upstream),
            notify |-> None]

AddAssistantMessage(conversation, response_message) ==
    [conversation EXCEPT
       !.conversation = Append(@, ConversationMessage("assistant", response_message))]

\* classify_message on each inbound text
Classification == [m \in Messages \cup {MsgName, MsgHi} |-> classify_message(m)]

\* lines 281-370 of handle_incoming_message, from the record get_or_create
\* returned to the record handed to save_conversation
Workflow(conversation, phone_number, message_content, upstream) ==
    LET withClient == AddClientMessage(conversation, message_content)
        classification == Classification[message_content]
        r == SelectRung(withClient, message_content, classification)
        out == ApplyRung(r, withClient, phone_number, message_content, classification, upstream)
    IN [conversation |-> AddAssistantMessage(out.conversation, out.response_message),
        response_message |-> out.response_message,
        rung |-> r,
        notify |-> out.notify,
        completion |->
            IF r = 7
              THEN Some([conversation_history |-> conversation_history(withClient),
                         user_message |-> message_content,
                         messages |-> formatted_messages(conversation_history(withClient),
                                                         message_content),
                         upstream |-> upstream,
                         reply |-> out.response_message])
              ELSE None]

\* faulty variant: the save adds the call's two turns to the stored ones and raises the stored counter
replace_one_merging(collection, key, document) ==
    IF IsNone(collection[key]) THEN [collection EXCEPT ![key] = Some(document)]
    ELSE [collection EXCEPT ![key] =
            Some([document EXCEPT
                    !.conversation = Get(collection[key]).conversation
                                       \o SubSeq(document.conversation,
                                                 Len(document.conversation) - 1,
                                                 Len(document.conversation)),
                    !.messages_used = Get(collection[key]).messages_used + 1])]

\* replace_one({"_id": key}, document, upsert=True)
replace_one(collection, key, document) ==
    [collection EXCEPT ![key] = Some(document)]

\* insert_one(document)
insert_one(collection, key, document) ==
    [collection EXCEPT ![key] = Some(document)]

\* save_conversation with no store failure: the record replaces the document
\* stored under its phone_number
save_conversation(collection, record) ==
    replace_one(collection, record.phone_number, ToDocument(record, record.phone_number))

\* get_or_create_conversation with no store failure and no other call in
\* between: the record and the collection it leaves
get_or_create_conversation(collection, number) ==
    LET normalized_phone == normalize_to_e164(number)
        conversation_doc == collection[normalized_phone]
    IN IF ~IsNone(conversation_doc)
         THEN [conversation |-> FromDocument(Get(conversation_doc)), collection |-> collection]
         ELSE LET new_conversation == NewConversation(normalized_phone)
              IN [conversation |-> new_conversation,
                  collection |-> insert_one(collection, normalized_phone,
                                            ToDocument(new_conversation, normalized_phone))]

(***************************************************************************)
(* Records a store may hold when the service starts                        *)
(***************************************************************************)
\* messages already handled for the client in the store the service starts with
PriorUsed == 18

Keys == {normalize_to_e164(p) : p \in Phones}

\* every value a store request of the service may carry as "_id"
Ids == Phones \cup Spellings \cup {normalize_to_e164(p) : p \in Phones \cup Spellings}

\* the document a client's first n messages leave when each is handled with no
\* failure and no overlap: a greeting, the name, then n - 2 texts that reach
\* the completion request (the budget check from the 20th on)
History(key, n) ==
    [id |-> key,
     client_name |-> IF n = 1 THEN Some(UNKNOWN) ELSE Some(Strip(MsgName)),
     phone_number |-> key,
     conversation |->
        [i \in 1..(2 * n) |->
           IF i = 1 THEN ConversationMessage("client", MsgHi)
           ELSE IF i = 2 THEN ConversationMessage("assistant", NameRequest)
           ELSE IF i = 4 THEN ConversationMessage("assistant", Personalized(Strip(MsgName)))
           ELSE IF i % 2 = 1 THEN ConversationMessage("client", MsgName)
           ELSE IF i \div 2 >= MESSAGE_LIMIT THEN ConversationMessage("assistant", LimitReply)
           ELSE ConversationMessage("assistant", GeneratedReply)],
     status |-> "pending",
     messages_used |-> n]

\* a client never seen, one who was just asked for a name, one with a long history
InitialStores ==
    {[k \in Ids |-> None]} \cup
    {[k \in Ids |-> IF k \in Keys THEN Some(History(k, n)) ELSE None] : n \in {1, PriorUsed}}

(***************************************************************************)
(* State                                                                   *)
(***************************************************************************)
VARIABLES
    store,             \* whatsapp_conversations: key -> Optional document
    pc,                \* where each handling call stands
    phone_number,      \* argument of the call
    message_content,   \* argument of the call
    conversation,      \* the call's own copy of the record (Optional)
    response_message,  \* the reply the call determined
    result,            \* the value the call returned (Optional)
    fetched,           \* history: the record as get_or_create returned it
    rung,              \* history: the branch of the ladder the call took (0: none yet)
    alerts,            \* history: team alerts of the call, with their outcome
    steps,             \* history: what the call has done so far, in order
    stale,             \* history: another call saved since this call read
    lost,              \* history: this call saved over a save it never read
    started,           \* history: handling calls started
    handled,           \* history: per key, calls that appended their client turn
    saved_calls,       \* history: per key, handling calls whose save succeeded
    prior,             \* history: messages_used per key when the service started
    completion,        \* history: the call's request to the Completion Client (Optional)
    arg,               \* the input of a function applied on its own (Optional)
    ret                \* what that function returned (Optional)

vars == <<store, pc, phone_number, message_content, conversation, response_message,
          result, fetched, rung, alerts, steps, stale, lost, started, handled, saved_calls,
          prior, completion, arg, ret>>

StoredUsed(doc) == IF IsNone(doc) THEN 0 ELSE Get(doc).messages_used

\* no call is being handled
Idle ==
    /\ pc = [p \in Procs |-> "idle"]
    /\ phone_number = [p \in Procs |-> <<>>]
    /\ message_content = [p \in Procs |-> <<>>]
    /\ conversation = [p \in Procs |-> None]
    /\ response_message = [p \in Procs |-> <<>>]
    /\ result = [p \in Procs |-> None]
    /\ fetched = [p \in Procs |-> None]
    /\ rung = [p \in Procs |-> 0]
    /\ alerts = [p \in Procs |-> <<>>]
    /\ steps = [p \in Procs |-> <<>>]
    /\ stale = [p \in Procs |-> FALSE]
    /\ lost = [p \in Procs |-> FALSE]
    /\ started = 0
    /\ handled = [k \in Ids |-> 0]
    /\ saved_calls = [k \in Ids |-> 0]
    /\ prior = [k \in Ids |-> StoredUsed(store[k])]
    /\ completion = [p \in Procs |-> None]

Init ==
    /\ store \in InitialStores
    /\ Idle
    /\ arg = None
    /\ ret = None

(***************************************************************************)
(* handle_incoming_message, one action per store or gateway interaction    *)
(***************************************************************************)
\* a call that has its return value returns before anything else happens:
\* the locals of a call do not outlive it
Returning == \E p \in Procs : pc[p] = "done"

\* the except clause of handle_incoming_message: log and return False
ReturnFalse(p, step) ==
    /\ pc' = [pc EXCEPT ![p] = "done"]
    /\ result' = [result EXCEPT ![p] = Some(FALSE)]
    /\ steps' = [steps EXCEPT ![p] = Append(@, step)]

\* a webhook request enters handle_incoming_message
HandleIncoming(p) ==
    /\ ~Returning
    /\ pc[p] = "idle"
    /\ (p = "h1" \/ pc["h1"] # "idle")
    /\ started < MaxCalls
    /\ \E phone \in Phones, message \in Messages :
         /\ phone_number' = [phone_number EXCEPT ![p] = phone]
         /\ message_content' = [message_content EXCEPT ![p] = message]
    /\ pc' = [pc EXCEPT ![p] = "find_one"]
    /\ started' = started + 1
    /\ UNCHANGED <<arg, ret, store, conversation, response_message, result, fetched, rung,
                   completion, alerts, steps, stale, lost, handled, saved_calls, prior>>

\* a webhook request enters handle_incoming_message; the sender is one number
\* in any of its spellings
HandleIncomingSpelled(p) ==
    /\ ~Returning
    /\ pc[p] = "idle"
    /\ (p = "h1" \/ pc["h1"] # "idle")
    /\ started < MaxCalls
    /\ \E phone \in Spellings, message \in {MsgName} :
         /\ phone_number' = [phone_number EXCEPT ![p] = phone]
         /\ message_content' = [message_content EXCEPT ![p] = message]
    /\ pc' = [pc EXCEPT ![p] = "find_one"]
    /\ started' = started + 1
    /\ UNCHANGED <<arg, ret, store, conversation, response_message, result, fetched, rung,
                   completion, alerts, steps, stale, lost, handled, saved_calls, prior>>

\* faulty variant: an alert that raised reaches the handler, which answers with an apology
RunWorkflowAlertEscapes(p, record, step) ==
    /\ \E upstream \in Upstream, outcome \in AlertOutcomes :
         LET w == Workflow(record, phone_number[p], message_content[p], upstream) IN
           /\ (w.rung # 7 => upstream = "ok")
           /\ (IsNone(w.notify) => outcome = "sent")
           /\ conversation' = [conversation EXCEPT ![p] =
                                 IF outcome = "raised"
                                   THEN Some(AddClientMessage(record, message_content[p]))
                                   ELSE Some(w.conversation)]
           /\ response_message' = [response_message EXCEPT ![p] =
                                     IF outcome = "raised"
                                       THEN <<"Sorry, something went wrong.">>
                                       ELSE w.response_message]
           /\ rung' = [rung EXCEPT ![p] = w.rung]
           /\ completion' = [completion EXCEPT ![p] = w.completion]
           /\ alerts' = [alerts EXCEPT ![p] =
                           IF IsNone(w.notify) THEN @
                           ELSE Append(@, [alert |-> Get(w.notify), outcome |-> outcome])]
    /\ fetched' = [fetched EXCEPT ![p] = Some(record)]
    /\ handled' = [handled EXCEPT ![record.phone_number] = @ + 1]
    /\ pc' = [pc EXCEPT ![p] = "replace_one"]
    /\ steps' = [steps EXCEPT ![p] = steps[p] \o <<step, "assistant_turn">>]

\* lines 281-370, run on the record get_or_create_conversation returned: client
\* turn, counter, classifier, ladder (with its team alert or its completion
\* request), assistant turn.  No store access happens in between.
RunWorkflow(p, record, step) ==
    /\ \E upstream \in Upstream, outcome \in AlertOutcomes :
         LET w == Workflow(record, phone_number[p], message_content[p], upstream) IN
           /\ (w.rung # 7 => upstream = "ok")
           /\ (IsNone(w.notify) => outcome = "sent")
           /\ conversation' = [conversation EXCEPT ![p] = Some(w.conversation)]
           /\ response_message' = [response_message EXCEPT ![p] = w.response_message]
           /\ rung' = [rung EXCEPT ![p] = w.rung]
           /\ completion' = [completion EXCEPT ![p] = w.completion]
           /\ alerts' = [alerts EXCEPT ![p] =
                           IF IsNone(w.notify) THEN @
                           ELSE Append(@, [alert |-> Get(w.notify), outcome |-> outcome])]
    /\ fetched' = [fetched EXCEPT ![p] = Some(record)]
    /\ handled' = [handled EXCEPT ![record.phone_number] = @ + 1]
    /\ pc' = [pc EXCEPT ![p] = "replace_one"]
    /\ steps' = [steps EXCEPT ![p] = steps[p] \o <<step, "assistant_turn">>]

\* get_or_create_conversation finds the document; the call runs up to save_conversation
FindOneFound(p) ==
    /\ ~Returning
    /\ pc[p] = "find_one"
    /\ LET normalized_phone == normalize_to_e164(phone_number[p]) IN
         /\ ~IsNone(store[normalized_phone])
         /\ RunWorkflow(p, FromDocument(Get(store[normalized_phone])), "found")
    /\ UNCHANGED <<arg, ret, store, phone_number, message_content, result, stale, lost,
                   started, saved_calls, prior>>

\* get_or_create_conversation: find_one answers that there is no document
FindOneMissing(p) ==
    /\ ~Returning
    /\ pc[p] = "find_one"
    /\ IsNone(store[normalize_to_e164(phone_number[p])])
    /\ pc' = [pc EXCEPT ![p] = "insert_one"]
    /\ UNCHANGED <<arg, ret, store, phone_number, message_content, conversation,
                   response_message, result, fetched, rung, completion, alerts, steps, stale,
                   lost, started, handled, saved_calls, prior>>

\* get_or_create_conversation: the store fails, the exception is re-raised
FindOneFails(p) ==
    /\ ~Returning
    /\ pc[p] = "find_one"
    /\ ReturnFalse(p, "lookup_failed")
    /\ UNCHANGED <<arg, ret, store, phone_number, message_content, conversation,
                   response_message, fetched, rung, completion, alerts, stale, lost, started,
                   handled, saved_calls, prior>>

\* faulty variant: the new record is created and inserted under the number as received
InsertOneAsReceived(p) ==
    /\ ~Returning
    /\ pc[p] = "insert_one"
    /\ LET new_conversation == NewConversation(phone_number[p])
       IN /\ IsNone(store[phone_number[p]])
          /\ store' = insert_one(store, phone_number[p], ToDocument(new_conversation, phone_number[p]))
          /\ RunWorkflow(p, new_conversation, "created")
    /\ UNCHANGED <<arg, ret, phone_number, message_content, result, stale, lost, started,
                   saved_calls, prior>>

\* get_or_create_conversation inserts the new record under the normalized
\* number; the call runs up to save_conversation
InsertOne(p) ==
    /\ ~Returning
    /\ pc[p] = "insert_one"
    /\ LET normalized_phone == normalize_to_e164(phone_number[p])
           new_conversation == NewConversation(normalized_phone)
       IN /\ IsNone(store[normalized_phone])
          /\ store' = insert_one(store, normalized_phone, ToDocument(new_conversation, normalized_phone))
          /\ RunWorkflow(p, new_conversation, "created")
    /\ UNCHANGED <<arg, ret, phone_number, message_content, result, stale, lost, started,
                   saved_calls, prior>>

\* get_or_create_conversation: insert_one raises (store failure, or the key
\* was inserted by an overlapping call since find_one)
InsertOneFails(p) ==
    /\ ~Returning
    /\ pc[p] = "insert_one"
    /\ ReturnFalse(p, "insert_failed")
    /\ UNCHANGED <<arg, ret, store, phone_number, message_content, conversation,
                   response_message, fetched, rung, completion, alerts, stale, lost, started,
                   handled, saved_calls, prior>>

\* save_conversation: the whole document replaces the stored one
ReplaceOne(p) ==
    /\ ~Returning
    /\ pc[p] = "replace_one"
    /\ LET c == Get(conversation[p]) IN
         /\ store' = save_conversation(store, c)
         /\ saved_calls' = [saved_calls EXCEPT ![c.phone_number] = @ + 1]
    /\ pc' = [pc EXCEPT ![p] = "send"]
    /\ steps' = [steps EXCEPT ![p] = Append(@, "saved")]
    /\ lost' = [lost EXCEPT ![p] = stale[p]]
    /\ stale' = [q \in Procs |-> IF q # p /\ pc[q] = "replace_one" THEN TRUE ELSE stale[q]]
    /\ UNCHANGED <<arg, ret, phone_number, message_content, conversation, response_message,
                   result, fetched, rung, completion, alerts, started, handled, prior>>

\* faulty variant: the failure of the save is logged and the reply is sent all the same
ReplaceOneFailsSwallowed(p) ==
    /\ ~Returning
    /\ pc[p] = "replace_one"
    /\ pc' = [pc EXCEPT ![p] = "send"]
    /\ steps' = [steps EXCEPT ![p] = Append(@, "save_failed")]
    /\ UNCHANGED <<arg, ret, store, phone_number, message_content, conversation,
                   response_message, result, fetched, rung, completion, alerts, stale, lost,
                   started, handled, saved_calls, prior>>

\* faulty variant: the store fails after the document was replaced
ReplaceOneFailsAfterWrite(p) ==
    /\ ~Returning
    /\ pc[p] = "replace_one"
    /\ store' = save_conversation(store, Get(conversation[p]))
    /\ ReturnFalse(p, "save_failed")
    /\ UNCHANGED <<arg, ret, phone_number, message_content, conversation,
                   response_message, fetched, rung, completion, alerts, stale, lost, started,
                   handled, saved_calls, prior>>

\* save_conversation: the store fails, the exception is re-raised
ReplaceOneFails(p) ==
    /\ ~Returning
    /\ pc[p] = "replace_one"
    /\ ReturnFalse(p, "save_failed")
    /\ UNCHANGED <<arg, ret, store, phone_number, message_content, conversation,
                   response_message, fetched, rung, completion, alerts, stale, lost, started,
                   handled, saved_calls, prior>>

\* faulty variant: the reply is sent as soon as it is determined, before the save
SendReplyEarly(p) ==
    /\ ~Returning
    /\ pc[p] \in {"replace_one", "send"}
    /\ \E success \in BOOLEAN :
         /\ result' = [result EXCEPT ![p] = Some(success)]
         /\ steps' = [steps EXCEPT ![p] = Append(@, IF success THEN "delivered" ELSE "delivery_failed")]
    /\ pc' = [pc EXCEPT ![p] = "done"]
    /\ UNCHANGED <<arg, ret, store, phone_number, message_content, conversation,
                   response_message, fetched, rung, completion, alerts, stale, lost, started,
                   handled, saved_calls, prior>>

\* send_whatsapp_message: the reply goes to the gateway, which accepts it or not
SendReply(p) ==
    /\ ~Returning
    /\ pc[p] = "send"
    /\ \E success \in BOOLEAN :
         /\ result' = [result EXCEPT ![p] = Some(success)]
         /\ steps' = [steps EXCEPT ![p] = Append(@, IF success THEN "delivered" ELSE "delivery_failed")]
    /\ pc' = [pc EXCEPT ![p] = "done"]
    /\ UNCHANGED <<arg, ret, store, phone_number, message_content, conversation,
                   response_message, fetched, rung, completion, alerts, stale, lost, started,
                   handled, saved_calls, prior>>

\* the call is over and its locals are gone
Return(p) ==
    /\ pc[p] = "done"
    /\ pc' = [pc EXCEPT ![p] = "idle"]
    /\ phone_number' = [phone_number EXCEPT ![p] = <<>>]
    /\ message_content' = [message_content EXCEPT ![p] = <<>>]
    /\ conversation' = [conversation EXCEPT ![p] = None]
    /\ response_message' = [response_message EXCEPT ![p] = <<>>]
    /\ result' = [result EXCEPT ![p] = None]
    /\ fetched' = [fetched EXCEPT ![p] = None]
    /\ rung' = [rung EXCEPT ![p] = 0]
    /\ completion' = [completion EXCEPT ![p] = None]
    /\ alerts' = [alerts EXCEPT ![p] = <<>>]
    /\ steps' = [steps EXCEPT ![p] = <<>>]
    /\ stale' = [stale EXCEPT ![p] = FALSE]
    /\ lost' = [lost EXCEPT ![p] = FALSE]
    /\ UNCHANGED <<arg, ret, store, started, handled, saved_calls, prior>>

Next ==
    \E p \in Procs :
        \/ HandleIncoming(p)
        \/ FindOneFound(p)
        \/ FindOneMissing(p)
        \/ FindOneFails(p)
        \/ InsertOne(p)
        \/ InsertOneFails(p)
        \/ ReplaceOne(p)
        \/ ReplaceOneFails(p)
        \/ SendReply(p)
        \/ Return(p)

Spec == Init /\ [][Next]_vars

\* the service as one client reaches it through gateways that spell the
\* sender's number differently
NextSpelled ==
    \E p \in Procs :
        \/ HandleIncomingSpelled(p)
        \/ FindOneFound(p)
        \/ FindOneMissing(p)
        \/ FindOneFails(p)
        \/ InsertOne(p)
        \/ InsertOneFails(p)
        \/ ReplaceOne(p)
        \/ ReplaceOneFails(p)
        \/ SendReply(p)
        \/ Return(p)

SpecSpelled == Init /\ [][NextSpelled]_vars

(***************************************************************************)
(* classify_message applied on its own                                     *)
(***************************************************************************)
\* words a text is made of
WordCost == <<"C", "o", "s", "t">>
WordSupport == <<"s", "u", "p", "p", "o", "r", "t">>
WordHelp == <<"H", "E", "L", "P">>
WordThanks == <<"t", "h", "a", "n", "k", "s">>
WordHi == <<"H", "i">>
WordOk == <<"o", "k">>
WordCostly == <<"c", "o", "s", "t", "l", "y">>
WordHello == <<"h", "e", "l", "l", "o">>

Vocabulary ==
    {WordCost, WordSupport, WordHelp, WordThanks, WordHi, WordOk, WordCostly, WordHello}

\* longest text, in words
MaxWords == 2

RECURSIVE WordTexts(_)
\* the texts of n words, a space between two words
WordTexts(n) ==
    IF n = 1 THEN Vocabulary
    ELSE {t \o <<" ">> \o w : t \in WordTexts(n - 1), w \in Vocabulary}

MsgSupportCost == <<"h", "o", "w", " ", "m", "u", "c", "h", " ", "d", "o", "e", "s", " ", "s", "u", "p", "p", "o", "r", "t", " ", "c", "o", "s", "t">>

Texts ==
    {<<>>, <<" ">>, MsgSupportCost, MsgCost, MsgProceed, MsgName}
      \cup UNION {WordTexts(n) : n \in 1..MaxWords}

\* no call is handled, the store is empty, an input is chosen
InitApply(fn, inputs) ==
    /\ store = [k \in Ids |-> None]
    /\ Idle
    /\ arg \in {Some([fn |-> fn, input |-> x]) : x \in inputs}
    /\ ret = None

InitClassify == InitApply("classify_message", Texts)

\* the classifier is called with the chosen text
ClassifyMessage ==
    /\ ~IsNone(arg)
    /\ Get(arg).fn = "classify_message"
    /\ IsNone(ret)
    /\ ret' = Some(classify_message(Get(arg).input))
    /\ UNCHANGED <<arg, store, pc, phone_number, message_content, conversation,
                   response_message, result, fetched, rung, completion, alerts, steps, stale,
                   lost, started, handled, saved_calls, prior>>

NextClassify == ClassifyMessage

SpecClassify == InitClassify /\ [][NextClassify]_vars

(***************************************************************************)
(* normalize_to_e164 applied on its own                                    *)
(***************************************************************************)
\* most digits after the prefix of a number
MaxDigits == 12

DigitSource == <<"3", "0", "0", "1", "1", "1", "2", "2", "3", "3", "4", "4", "5", "5">>

\* what a gateway may put in front of the subscriber digits, and between
NumberPrefixes == {<<>>, <<"+">>, <<"0">>, <<"9", "2">>, <<"+", "9", "2">>, <<"0", "0", "9", "2">>}

NumberSeparators == {<<>>, <<"-">>, <<" ">>}

NumberTexts ==
    {pre \o sep \o SubSeq(DigitSource, 1, n) :
        pre \in NumberPrefixes, sep \in NumberSeparators, n \in 0..MaxDigits}

InitNormalize == InitApply("normalize_to_e164", NumberTexts)

\* the normalizer is called with the chosen text
NormalizeToE164 ==
    /\ ~IsNone(arg)
    /\ Get(arg).fn = "normalize_to_e164"
    /\ IsNone(ret)
    /\ ret' = Some(normalize_to_e164(Get(arg).input))
    /\ UNCHANGED <<arg, store, pc, phone_number, message_content, conversation,
                   response_message, result, fetched, rung, completion, alerts, steps, stale,
                   lost, started, handled, saved_calls, prior>>

NextNormalize == NormalizeToE164

SpecNormalize == InitNormalize /\ [][NextNormalize]_vars

(***************************************************************************)
(* POST /webhook (main.py)                                                 *)
(***************************************************************************)
GoodSecret == <<"s", "3", "c", "r", "e", "t">>

BadSecret == <<"g", "u", "e", "s", "s">>

\* what reading the body gives: an exception, a JSON value that is no
\* object, an object (or a form turned into a dict)
ParseOutcomes == {"raises", "not_dict", "dict"}

\* the keys of the body: "type" with "data" (nested; the data an object or
\* not), "type" with "phone" (flat), "type" with "data[...]" keys
\* (bracketed), none of these
BodyShapes == {"nested", "nested_not_dict", "flat", "bracketed", "none"}

MessageTypes == {"whatsapp", "sms", "mms"}

\* the "phone" of the payload; empty when the payload has none
SenderTexts == {<<>>, RawLocal, RawE164}

\* WEBHOOK_SECRET in the environment: unset, set to the empty string, set
ConfiguredSecrets == {None, Some(<<>>), Some(GoodSecret)}

Requests ==
    [parse : ParseOutcomes,
     body_secret : {<<>>, GoodSecret, BadSecret},
     header_secret : {<<>>, GoodSecret},
     shape : BodyShapes,
     type : MessageTypes,
     phone : SenderTexts,
     message : {MsgHelp}]

\* what handle_incoming_message does when the webhook awaits it
EngineOutcomes == {"true", "false", "raises"}

JSONResponse(content) == [status_code |-> 200, content |-> content]

\* the body {"status": "ok", field: value}
Acknowledge(field, value) ==
    JSONResponse([status |-> "ok", field |-> field, value |-> value])

\* faulty variant: a request whose secret is not the configured one is turned away
verify_secret_enforced(incoming_secret, expected_secret) ==
    IF IsNone(expected_secret) \/ Get(expected_secret) = <<>>
      THEN [early |-> Some(Acknowledge("error", "webhook_secret_not_configured")),
            log |-> "not_configured"]
    ELSE IF incoming_secret # Get(expected_secret)
      THEN [early |-> Some(Acknowledge("error", "invalid_secret")), log |-> "invalid"]
    ELSE [early |-> None, log |-> "verified"]

\* lines 227-238: without a configured secret the request is answered at
\* once (early); otherwise the comparison is only logged
verify_secret(incoming_secret, expected_secret) ==
    IF IsNone(expected_secret) \/ Get(expected_secret) = <<>>
      THEN [early |-> Some(Acknowledge("error", "webhook_secret_not_configured")),
            log |-> "not_configured"]
    ELSE IF incoming_secret # <<>> /\ incoming_secret # Get(expected_secret)
      THEN [early |-> None, log |-> "invalid"]
    ELSE IF incoming_secret # <<>>
      THEN [early |-> None, log |-> "verified"]
    ELSE [early |-> None, log |-> "none"]

NotInvoked(response, log) ==
    [response |-> response, invoked |-> FALSE, secret_log |-> log,
     sender |-> <<>>, message |-> <<>>, engine |-> "none", bot_account |-> "none"]

\* faulty variant: an exception of the engine is answered with an HTTP error
bot_response_propagating(engine) ==
    IF engine = "raises"
      THEN [status_code |-> 500,
            content |-> [status |-> "error", field |-> "detail", value |-> "Internal server error"]]
    ELSE Acknowledge("message", "processed")

\* lines 302-312: the engine is awaited; its value is logged, its exception caught
bot_response(engine) ==
    IF engine = "raises" THEN Acknowledge("error", "bot_processing_failed")
    ELSE Acknowledge("message", "processed")

\* the handler, from the request, the environment and what the engine does
\* to what it answers and whether and with what it invoked the engine
whatsapp_webhook(request, expected_secret, engine) ==
    IF request.parse = "raises"
      THEN NotInvoked(Acknowledge("error", "parse_error"), "none")
    ELSE IF request.parse = "not_dict"
      THEN NotInvoked(Acknowledge("error", "general_error"), "none")
    ELSE
      LET incoming_secret == IF request.body_secret # <<>> THEN request.body_secret
                             ELSE request.header_secret
          check == verify_secret(incoming_secret, expected_secret)
      IN IF ~IsNone(check.early)
           THEN NotInvoked(Get(check.early), check.log)
         ELSE IF request.shape = "none"
           THEN NotInvoked(Acknowledge("message", "ignored"), check.log)
         ELSE IF request.shape = "nested_not_dict"
           THEN NotInvoked(Acknowledge("error", "processing_failed"), check.log)
         ELSE
           LET raw_sender == request.phone
               sender == normalize_to_e164(raw_sender)
           IN IF sender = <<>>
                THEN NotInvoked(Acknowledge("error", "no_sender"), check.log)
              ELSE [response |-> bot_response(engine), invoked |-> TRUE,
                    secret_log |-> check.log, sender |-> sender,
                    message |-> request.message, engine |-> engine,
                    bot_account |-> IF request.type = "whatsapp" THEN "wid"
                                    ELSE IF request.type = "sms" THEN "device"
                                    ELSE "account"]

InitWebhook ==
    InitApply("whatsapp_webhook",
              [request : Requests, WEBHOOK_SECRET : ConfiguredSecrets])

\* one request is handled
WebhookPost ==
    /\ ~IsNone(arg)
    /\ Get(arg).fn = "whatsapp_webhook"
    /\ IsNone(ret)
    /\ \E engine \in EngineOutcomes :
         ret' = Some(whatsapp_webhook(Get(arg).input.request,
                                      Get(arg).input.WEBHOOK_SECRET, engine))
    /\ UNCHANGED <<arg, store, pc, phone_number, message_content, conversation,
                   response_message, result, fetched, rung, completion, alerts, steps, stale,
                   lost, started, handled, saved_calls, prior>>

NextWebhook == WebhookPost

SpecWebhook == InitWebhook /\ [][NextWebhook]_vars

(***************************************************************************)
(* save_conversation followed by get_or_create_conversation                *)
(***************************************************************************)
\* the records get_or_create_conversation hands to a handling call
FetchedRecords ==
    {NewConversation(k) : k \in Keys}
      \cup {FromDocument(History(k, n)) : k \in Keys, n \in {1, PriorUsed}}

\* the records a handling call hands to save_conversation
SavedRecords ==
    {Workflow(r, r.phone_number, m, u).conversation :
        r \in FetchedRecords, m \in Messages \cup {MsgName}, u \in Upstream}

InitRoundTrip ==
    /\ store \in InitialStores
    /\ Idle
    /\ arg \in {Some([fn |-> "save_conversation", input |-> r]) : r \in SavedRecords}
    /\ ret = None

\* the record is saved
SaveConversation ==
    /\ ~IsNone(arg)
    /\ Get(arg).fn = "save_conversation"
    /\ IsNone(ret)
    /\ store' = save_conversation(store, Get(arg).input)
    /\ ret' = Some([before |-> store, saved |-> store', conversation |-> None])
    /\ UNCHANGED <<arg, pc, phone_number, message_content, conversation,
                   response_message, result, fetched, rung, completion, alerts, steps, stale,
                   lost, started, handled, saved_calls, prior>>

\* the record is fetched again under its phone_number
GetOrCreateConversation ==
    /\ ~IsNone(arg)
    /\ Get(arg).fn = "save_conversation"
    /\ ~IsNone(ret)
    /\ IsNone(Get(ret).conversation)
    /\ LET got == get_or_create_conversation(store, Get(arg).input.phone_number) IN
         /\ store' = got.collection
         /\ ret' = Some([Get(ret) EXCEPT !.conversation = Some(got.conversation)])
    /\ UNCHANGED <<arg, pc, phone_number, message_content, conversation,
                   response_message, result, fetched, rung, completion, alerts, steps, stale,
                   lost, started, handled, saved_calls, prior>>

NextRoundTrip == SaveConversation \/ GetOrCreateConversation

SpecRoundTrip == InitRoundTrip /\ [][NextRoundTrip]_vars

(***************************************************************************)
(* the message budget: one client with a long record keeps writing         *)
(***************************************************************************)
\* handling calls of that client
MaxBudgetCalls == 4

\* texts that no canned reply answers, and one that a canned reply answers
BudgetMessages == {MsgUnknown, MsgHelp}

\* the replies of the Completion Client a document holds
GeneratedTurns(doc) ==
    Cardinality({i \in 1..Len(doc.conversation) :
                    /\ doc.conversation[i].role = "assistant"
                    /\ doc.conversation[i].message = GeneratedReply})

\* the store holds the client's record of PriorUsed messages; ret counts the
\* requests made to the Completion Client for the client, those that produced
\* the record's replies included
InitBudget ==
    /\ store = [k \in Ids |-> IF k \in Keys THEN Some(History(k, PriorUsed)) ELSE None]
    /\ Idle
    /\ arg = None
    /\ ret = Some(GeneratedTurns(History(CHOOSE k \in Keys : TRUE, PriorUsed)))

HandleIncomingBudget(p) ==
    /\ ~Returning
    /\ pc[p] = "idle"
    /\ (p = "h1" \/ pc["h1"] # "idle")
    /\ started < MaxBudgetCalls
    /\ \E phone \in Phones, message \in BudgetMessages :
         /\ phone_number' = [phone_number EXCEPT ![p] = phone]
         /\ message_content' = [message_content EXCEPT ![p] = message]
    /\ pc' = [pc EXCEPT ![p] = "find_one"]
    /\ started' = started + 1
    /\ UNCHANGED <<arg, ret, store, conversation, response_message, result, fetched, rung,
                   completion, alerts, steps, stale, lost, handled, saved_calls, prior>>

\* FindOneFound, with the request to the Completion Client counted
FindOneFoundCounted(p) ==
    /\ ~Returning
    /\ pc[p] = "find_one"
    /\ LET normalized_phone == normalize_to_e164(phone_number[p]) IN
         /\ ~IsNone(store[normalized_phone])
         /\ RunWorkflow(p, FromDocument(Get(store[normalized_phone])), "found")
    /\ ret' = Some(Get(ret) + (IF IsNone(completion'[p]) THEN 0 ELSE 1))
    /\ UNCHANGED <<arg, store, phone_number, message_content, result, stale, lost,
                   started, saved_calls, prior>>

NextBudget ==
    \E p \in Procs :
        \/ HandleIncomingBudget(p)
        \/ FindOneFoundCounted(p)
        \/ FindOneFails(p)
        \/ ReplaceOne(p)
        \/ ReplaceOneFails(p)
        \/ SendReply(p)
        \/ Return(p)

SpecBudget == InitBudget /\ [][NextBudget]_vars

(***************************************************************************)
(* the workflow of one message applied on its own                          *)
(***************************************************************************)
\* the records a handling call may read: a new one, and the record of a
\* client after each number of messages up to the budget
WorkflowRecords ==
    {NewConversation(k) : k \in Keys}
      \cup {FromDocument(History(k, n)) : k \in Keys, n \in 1..(PriorUsed + 1)}

WorkflowTexts == Messages \cup {MsgName, MsgHi}

InitWorkflow ==
    InitApply("handle_incoming_message",
              [conversation : WorkflowRecords, message_content : WorkflowTexts,
               upstream : Upstream])

\* lines 281-370 are run on the chosen record and text
HandleMessage ==
    /\ ~IsNone(arg)
    /\ Get(arg).fn = "handle_incoming_message"
    /\ IsNone(ret)
    /\ ret' = Some(Workflow(Get(arg).input.conversation,
                            Get(arg).input.conversation.phone_number,
                            Get(arg).input.message_content, Get(arg).input.upstream))
    /\ UNCHANGED <<arg, store, pc, phone_number, message_content, conversation,
                   response_message, result, fetched, rung, completion, alerts, steps, stale,
                   lost, started, handled, saved_calls, prior>>

NextWorkflow == HandleMessage

SpecWorkflow == InitWorkflow /\ [][NextWorkflow]_vars

(***************************************************************************)
(* the sender's number on its way from the webhook to the gateway          *)
(***************************************************************************)
InitSender == InitApply("sender", NumberTexts)

\* whatsapp_webhook normalizes the sender of the payload
WebhookNormalizes ==
    /\ ~IsNone(arg)
    /\ Get(arg).fn = "sender"
    /\ IsNone(ret)
    /\ ret' = Some([sender |-> normalize_to_e164(Get(arg).input),
                    normalized_phone |-> None, recipient |-> None])
    /\ UNCHANGED <<arg, store, pc, phone_number, message_content, conversation,
                   response_message, result, fetched, rung, completion, alerts, steps, stale,
                   lost, started, handled, saved_calls, prior>>

\* the webhook has a sender and calls the engine with it:
\* get_or_create_conversation normalizes what it is given
EngineNormalizes ==
    /\ ~IsNone(arg)
    /\ Get(arg).fn = "sender"
    /\ ~IsNone(ret)
    /\ Get(ret).sender # <<>>
    /\ IsNone(Get(ret).normalized_phone)
    /\ ret' = Some([Get(ret) EXCEPT !.normalized_phone = Some(normalize_to_e164(Get(ret).sender))])
    /\ UNCHANGED <<arg, store, pc, phone_number, message_content, conversation,
                   response_message, result, fetched, rung, completion, alerts, steps, stale,
                   lost, started, handled, saved_calls, prior>>

\* send_whatsapp_message normalizes the number the engine was given
SenderNormalizes ==
    /\ ~IsNone(arg)
    /\ Get(arg).fn = "sender"
    /\ ~IsNone(ret)
    /\ ~IsNone(Get(ret).normalized_phone)
    /\ IsNone(Get(ret).recipient)
    /\ ret' = Some([Get(ret) EXCEPT !.recipient = Some(normalize_to_e164(Get(ret).sender))])
    /\ UNCHANGED <<arg, store, pc, phone_number, message_content, conversation,
                   response_message, result, fetched, rung, completion, alerts, steps, stale,
                   lost, started, handled, saved_calls, prior>>

NextSender == WebhookNormalizes \/ EngineNormalizes \/ SenderNormalizes

SpecSender == InitSender /\ [][NextSender]_vars

TypeOK ==
    /\ \A p \in Procs : pc[p] \in {"idle", "find_one", "insert_one", "replace_one", "send", "done"}
    /\ \A p \in Procs : rung[p] \in 0..7
    /\ started \in Nat

(***************************************************************************)
(* Properties                                                              *)
(***************************************************************************)
InSteps(p, s) == \E i \in 1..Len(steps[p]) : steps[p][i] = s

\* position of step s in the call of p, 0 when the call has not done it
Pos(p, s) == IF InSteps(p, s) THEN CHOOSE i \in 1..Len(steps[p]) : steps[p][i] = s ELSE 0

\* the call has come out of get_or_create_conversation and through the ladder
Decided(p) == rung[p] # 0

DeliveryAttempted(p) == InSteps(p, "delivered") \/ InSteps(p, "delivery_failed")

\* the record as the ladder saw it, the client turn counted: the two fields
\* the conditions of the ladder read
LadderView(p) ==
    [client_name |-> Get(fetched[p]).client_name,
     messages_used |-> Get(fetched[p]).messages_used + 1]

\* some phrase of the list occurs in the text, in any letter case
HoldsPhrase(m, phrases) == \E k \in 1..Len(phrases) : Contains(Lower(m), phrases[k])

\* the inbound texts that hold an escalation phrase, a completion phrase
EscalationTexts == {m \in Messages \cup {MsgName} : HoldsPhrase(m, escalation_keywords)}

CompletionTexts == {m \in Messages \cup {MsgName} : HoldsPhrase(m, completion_keywords)}

\* the condition of each rung, as the specification words it
RungHolds(k, c, m) ==
    CASE k = 1 -> Falsy(c.client_name) /\ c.messages_used = 1
      [] k = 2 -> Falsy(c.client_name) \/ c.client_name = Some(UNKNOWN)
      [] k = 3 -> Classification[m].confidence >= 8
      [] k = 4 -> m \in EscalationTexts
      [] k = 5 -> m \in CompletionTexts
      [] k = 6 -> c.messages_used >= 20
      [] OTHER -> TRUE

\* the reply each rung stands for
RungReplies(k, m) ==
    CASE k = 1 -> {NameRequest}
      [] k = 2 -> {Personalized(Strip(m))}
      [] k = 3 -> {Classification[m].response}
      [] k = 4 -> {ContactReply}
      [] k = 5 -> {FinalizedReply}
      [] k = 6 -> {LimitReply}
      [] OTHER -> {get_llama_response(<<>>, m, u) : u \in Upstream}

\* C1: for every handled message the reply comes from exactly one rung, the
\* first one in the order 1..7 whose condition holds; no later rung fires when
\* an earlier rung's condition holds, and exactly one assistant turn, carrying
\* that reply, is appended.
C1_FirstMatchWins ==
    \A p \in Procs :
        Decided(p) =>
            LET c == LadderView(p)
                m == message_content[p]
                turns == Get(conversation[p]).conversation
            IN /\ RungHolds(rung[p], c, m)
               /\ \A j \in 1..(rung[p] - 1) : ~RungHolds(j, c, m)
               /\ response_message[p] \in RungReplies(rung[p], m)
               /\ \A k \in 1..6 : k # rung[p] => response_message[p] \notin RungReplies(k, m)
               /\ Len(turns) = Len(Get(fetched[p]).conversation) + 2
               /\ turns[Len(turns)] = ConversationMessage("assistant", response_message[p])

\* a completion phrase arrives as the 20th message or later: rung 5 and rung 6
\* both hold and rung 5 answers
C1_Witness ==
    \E p \in Procs :
        /\ rung[p] = 5
        /\ RungHolds(6, LadderView(p), message_content[p])
        /\ response_message[p] = FinalizedReply

\* C2 (as claimed): whenever a call got as far as the save, delivery of the
\* reply was attempted and the returned value is the delivery result, also
\* when the save failed.
C2_ReturnIsDeliveryOnly ==
    \A p \in Procs :
        (pc[p] = "done" /\ Decided(p)) =>
            /\ DeliveryAttempted(p)
            /\ result[p] = Some(InSteps(p, "delivered"))

\* C2 (amended): the returned value is the delivery result whenever the save
\* succeeded, whatever became of a team alert; when the save fails no delivery
\* is attempted and the call returns false.
C2_ReturnAfterSave ==
    \A p \in Procs :
        (pc[p] = "done" /\ Decided(p)) =>
            /\ InSteps(p, "saved") =>
                 (DeliveryAttempted(p) /\ result[p] = Some(InSteps(p, "delivered")))
            /\ InSteps(p, "save_failed") =>
                 (~DeliveryAttempted(p) /\ result[p] = Some(FALSE))
            /\ InSteps(p, "saved") # InSteps(p, "save_failed")

\* a team alert failed or raised, the save succeeded, the reply was delivered
\* and the call returned true
C2_Witness ==
    \E p \in Procs :
        /\ pc[p] = "done"
        /\ alerts[p] # <<>>
        /\ alerts[p][1].outcome \in {"failed", "raised"}
        /\ InSteps(p, "saved")
        /\ result[p] = Some(TRUE)

Stored(k) == Get(store[k])

\* no handling call is under way
Quiescent == \A p \in Procs : pc[p] = "idle"

\* client turns of a stored record
ClientTurns(doc) ==
    IF IsNone(doc) THEN 0
    ELSE Cardinality({i \in 1..Len(Get(doc).conversation) : Get(doc).conversation[i].role = "client"})

\* C3 (as claimed): in the stored record status only goes from pending to
\* finalized; once finalized is stored no later save stores pending again,
\* overlapping calls included.
C3_StatusNeverReverts ==
    [][\A k \in Keys :
          (~IsNone(store[k]) /\ Stored(k).status = "finalized")
              => (~IsNone(store'[k]) /\ Get(store'[k]).status = "finalized")]_vars

\* C4 (as claimed): every handled inbound message raises the stored
\* messages_used by exactly 1 (so once no call is under way the stored counter
\* is the starting value plus the number of messages handled), and the stored
\* counter never decreases.
C4_CounterCountsEveryMessage ==
    [][/\ Quiescent' => \A k \in Keys : StoredUsed(store'[k]) = prior'[k] + handled'[k]
       /\ \A k \in Keys : StoredUsed(store'[k]) >= StoredUsed(store[k])]_vars

\* C5 (as claimed): the stored turns are append-only: after every save the
\* stored turn sequence has the previously stored one as a prefix.
C5_TurnsAppendOnly ==
    [][\A k \in Keys :
          ~IsNone(store[k]) =>
              IsPrefix(Stored(k).conversation, Get(store'[k]).conversation)]_vars

\* C6: when two calls for one number both read the record before either saves,
\* the later save replaces the whole document: the turns and the counter
\* increment of the earlier save are gone, and the stored record has fewer
\* client turns (and a smaller counter) than messages handled and saved.
C6_LostUpdate ==
    \A p \in Procs :
        lost[p] =>
            LET k == Get(conversation[p]).phone_number IN
              /\ ClientTurns(store[k]) < prior[k] + saved_calls[k]
              /\ StoredUsed(store[k]) < prior[k] + saved_calls[k]

\* both calls have saved, the second one over a save it never read, and the
\* store holds exactly the record of the second
C6_Witness ==
    \E p \in Procs :
        /\ lost[p]
        /\ pc[p] = "send"
        /\ store[Get(conversation[p]).phone_number]
             = Some(ToDocument(Get(conversation[p]), Get(conversation[p]).phone_number))
        /\ saved_calls[Get(conversation[p]).phone_number] = 2

\* C7: on every path the assistant turn carrying the reply is appended first,
\* then the record is saved, then delivery is attempted; delivery is never
\* attempted before the save step.
C7_AppendSaveDeliver ==
    \A p \in Procs :
        /\ DeliveryAttempted(p) =>
             /\ 0 < Pos(p, "assistant_turn")
             /\ Pos(p, "assistant_turn") < Pos(p, "saved")
             /\ Pos(p, "saved") < Len(steps[p])
             /\ steps[p][Len(steps[p])] \in {"delivered", "delivery_failed"}
        /\ (InSteps(p, "saved") \/ InSteps(p, "save_failed")) =>
             LET turns == Get(conversation[p]).conversation IN
               /\ 0 < Pos(p, "assistant_turn")
               /\ turns[Len(turns)] = ConversationMessage("assistant", response_message[p])

\* a call has appended, saved and delivered
C7_Witness ==
    \E p \in Procs :
        /\ pc[p] = "done"
        /\ InSteps(p, "delivered")
        /\ InSteps(p, "saved")

\* the record was created by this call: the number was new
CreatedByCall(p) == steps[p] # <<>> /\ steps[p][1] = "created"

\* C8: the first inbound message ever handled for a new number leaves the
\* record with messages_used = 1 and client_name = "Unknown" and is answered
\* with the name request, whatever its text.
C8_FirstMessage ==
    \A p \in Procs :
        (Decided(p) /\ CreatedByCall(p)) =>
            /\ Get(conversation[p]).messages_used = 1
            /\ Get(conversation[p]).client_name = Some(UNKNOWN)
            /\ response_message[p] = NameRequest
            /\ (InSteps(p, "saved") /\ saved_calls[Get(conversation[p]).phone_number] = 1) =>
                 /\ Stored(Get(conversation[p]).phone_number).messages_used = 1
                 /\ Stored(Get(conversation[p]).phone_number).client_name = Some(UNKNOWN)

\* the first message of a new number is a pricing question and is answered
\* with the name request
C8_Witness ==
    \E p \in Procs :
        /\ CreatedByCall(p)
        /\ InSteps(p, "saved")
        /\ message_content[p] = MsgCost
        /\ response_message[p] = NameRequest

\* t is s without its leading and trailing white space
Trimmed(s, t) ==
    /\ (t # <<>> => t[1] \notin SpaceChars /\ t[Len(t)] \notin SpaceChars)
    /\ \E i \in 0..Len(s) :
         /\ i + Len(t) <= Len(s)
         /\ \A j \in 1..i : s[j] \in SpaceChars
         /\ \A j \in 1..Len(t) : s[i + j] = t[j]
         /\ \A j \in (i + Len(t) + 1)..Len(s) : s[j] \in SpaceChars

\* C9: the second inbound message of a number (the record read holds exactly
\* the first exchange) sets client_name to the trimmed text of the message and
\* is answered with the personalized project inquiry containing that name,
\* whatever the classifier says about the text.
C9_SecondMessage ==
    \A p \in Procs :
        (Decided(p) /\ Get(fetched[p]).messages_used = 1) =>
            LET name == Get(conversation[p]).client_name IN
              /\ ~IsNone(name)
              /\ Trimmed(message_content[p], Get(name))
              /\ response_message[p] = Personalized(Get(name))
              /\ Get(conversation[p]).messages_used = 2

\* the second message is a pricing question (confidence 0.9) and becomes the name
C9_Witness ==
    \E p \in Procs :
        /\ Decided(p)
        /\ Get(fetched[p]).messages_used = 1
        /\ message_content[p] = MsgCost
        /\ Classification[MsgCost].confidence >= CONFIDENCE_THRESHOLD
        /\ Get(conversation[p]).client_name = Some(MsgCost)

\* C10 (as claimed): client_name is written only during the first two
\* exchanges; no inbound message from the third onward is treated as a name
\* or changes client_name.
C10_NameOnlyInFirstTwo ==
    \A p \in Procs :
        (Decided(p) /\ Get(fetched[p]).messages_used >= 2) =>
            /\ rung[p] \notin {1, 2}
            /\ Get(conversation[p]).client_name = Get(fetched[p]).client_name

\* the call of p has just been through the ladder, and every earlier call for
\* the same number was over, its save included, before p read the record
OneAfterAnother(p) ==
    LET k == Get(fetched[p]).phone_number IN
      /\ pc[p] = "replace_one"
      /\ handled[k] = saved_calls[k] + 1
      /\ Get(fetched[p]).messages_used = prior[k] + saved_calls[k]

HasAlert(p, kind) == \E i \in 1..Len(alerts[p]) : alerts[p][i].alert.kind = kind

\* C11 (as claimed): of 20 messages of one number handled one after another,
\* whatever their texts, the 20th is answered with the limit-reached reply and
\* raises a team alert, and the 19th gets another reply and raises no alert.
C11_TwentiethHitsLimit ==
    \A p \in Procs :
        (Decided(p) /\ OneAfterAnother(p)) =>
            /\ Get(fetched[p]).messages_used = 19 =>
                 (response_message[p] = LimitReply /\ alerts[p] # <<>>)
            /\ Get(fetched[p]).messages_used = 18 =>
                 (response_message[p] # LimitReply /\ alerts[p] = <<>>)

\* C11 (amended): of the messages of one number handled one after another,
\* the 20th is answered with the limit-reached reply and raises the limit
\* alert, and no other alert, when no earlier rung of the ladder holds for it
\* (name still to collect, classifier confidence of 0.8 or more, escalation
\* phrase, completion phrase); when an earlier rung holds, that rung answers
\* and no limit alert is raised.  The 19th never gets the limit-reached reply
\* nor raises the limit alert.
C11_TwentiethUnlessEarlierRung ==
    \A p \in Procs :
        (Decided(p) /\ OneAfterAnother(p)) =>
            LET earlier == \E j \in 1..5 : RungHolds(j, LadderView(p), message_content[p]) IN
              /\ (Get(fetched[p]).messages_used = 19 /\ ~earlier) =>
                   /\ response_message[p] = LimitReply
                   /\ Len(alerts[p]) = 1
                   /\ HasAlert(p, "limit")
              /\ (Get(fetched[p]).messages_used = 19 /\ earlier) =>
                   /\ response_message[p] # LimitReply
                   /\ ~HasAlert(p, "limit")
              /\ Get(fetched[p]).messages_used = 18 =>
                   /\ response_message[p] # LimitReply
                   /\ ~HasAlert(p, "limit")

\* the 19th message was handled and saved by an earlier call; the 20th matches
\* no earlier rung and gets the limit-reached reply
C11_Witness ==
    \E p \in Procs :
        /\ Decided(p)
        /\ OneAfterAnother(p)
        /\ saved_calls[Get(fetched[p]).phone_number] = MESSAGE_LIMIT - 1 - prior[Get(fetched[p]).phone_number]
        /\ Get(fetched[p]).messages_used = 19
        /\ response_message[p] = LimitReply
        /\ HasAlert(p, "limit")

\* the text holds the phrase of the claim, in any letter case
ProceedTexts == {m \in Messages \cup {MsgName} : Contains(Lower(m), MsgProceed)}

HoldsProceedPhrase(m) == m \in ProceedTexts

\* the finalization alert of the call carries a summary whose lines are the
\* turns of the record as the ladder saw it, one line per turn, in list order
SummaryCoversTurns(p) ==
    \E i \in 1..Len(alerts[p]) :
        LET a == alerts[p][i].alert
            lines == a.message.summary.lines
            stored == Get(fetched[p]).conversation
        IN /\ a.kind = "finalized"
           /\ Len(lines) = Len(stored) + 1
           /\ \A j \in 1..Len(stored) :
                /\ lines[j].message = stored[j].message
                /\ lines[j].role = Title(stored[j].role)
           /\ lines[Len(lines)].message = message_content[p]
           /\ lines[Len(lines)].role = Title("client")

\* C12 (as claimed): every inbound message holding "sounds good, let's
\* proceed" leaves the record finalized and sends a team alert whose payload
\* renders every turn of the conversation in the order of appending.
C12_ProceedFinalizes ==
    \A p \in Procs :
        (Decided(p) /\ HoldsProceedPhrase(message_content[p])) =>
            /\ Get(conversation[p]).status = "finalized"
            /\ SummaryCoversTurns(p)

\* C12 (amended): an inbound message holding "sounds good, let's proceed"
\* for which no earlier rung holds (a name other than the sentinel is stored,
\* classifier confidence below 0.8, no escalation phrase) leaves the record
\* finalized and sends exactly one team alert, whose summary shows the status
\* finalized and renders every turn up to and including the inbound one, in
\* the order of appending; when rung 1 or 2 holds the text is taken for the
\* first message or the name, the status is left alone and no alert is sent.
C12_ProceedFinalizesOnceNamed ==
    \A p \in Procs :
        (Decided(p) /\ HoldsProceedPhrase(message_content[p])) =>
            LET c == LadderView(p)
                m == message_content[p]
            IN /\ (\A j \in 1..4 : ~RungHolds(j, c, m)) =>
                    /\ Get(conversation[p]).status = "finalized"
                    /\ Len(alerts[p]) = 1
                    /\ SummaryCoversTurns(p)
                    /\ alerts[p][1].alert.message.summary.status = "finalized"
               /\ (RungHolds(1, c, m) \/ RungHolds(2, c, m)) =>
                    /\ Get(conversation[p]).status = Get(fetched[p]).status
                    /\ alerts[p] = <<>>

\* a pending record with a name and a long history is finalized by the phrase
C12_Witness ==
    \E p \in Procs :
        /\ Decided(p)
        /\ message_content[p] = MsgProceed
        /\ Get(fetched[p]).status = "pending"
        /\ Get(fetched[p]).messages_used >= 2
        /\ Get(conversation[p]).status = "finalized"
        /\ SummaryCoversTurns(p)

\* the record read holds a name a client message supplied: the second
\* exchange, which stores the client's text as the name, is in it
NameSupplied(p) ==
    /\ Get(fetched[p]).messages_used >= 2
    /\ ~IsNone(Get(fetched[p]).client_name)

\* C13 (as claimed): once a client-supplied name is stored, an inbound
\* message holding "how much does it cost" is answered with the fixed pricing
\* reply and triggers exactly one team alert.
C13_PricingAfterName ==
    \A p \in Procs :
        (Decided(p) /\ NameSupplied(p) /\ Contains(Lower(message_content[p]), MsgCost)) =>
            /\ response_message[p] = classify_message(MsgCost).response
            /\ classify_message(MsgCost).type = "pricing"
            /\ Len(alerts[p]) = 1
            /\ alerts[p][1].alert.kind = "pricing"

\* two calls were given the same arguments and read the same record
SameInput(p, q) ==
    /\ fetched[p] = fetched[q]
    /\ phone_number[p] = phone_number[q]
    /\ message_content[p] = message_content[q]

\* C14: a team alert never affects the primary reply path.  Two calls with
\* the same input whose alerts ended differently (sent, refused, raised inside
\* notify_team) determine the same reply and hand the same record to the
\* save; and the value a call with an alert returns is the delivery result
\* when its save succeeded and false when the save failed, whatever the
\* outcome of the alert.
C14_AlertOffReplyPath ==
    /\ \A p, q \in Procs :
         (Decided(p) /\ Decided(q) /\ SameInput(p, q) /\ alerts[p] # <<>> /\ alerts[q] # <<>>) =>
             /\ response_message[p] = response_message[q]
             /\ conversation[p] = conversation[q]
             /\ alerts[p][1].alert = alerts[q][1].alert
    /\ \A p \in Procs :
         (Decided(p) /\ alerts[p] # <<>>) =>
             /\ InSteps(p, "assistant_turn")
             /\ pc[p] \in {"replace_one", "send", "done"}
             /\ pc[p] = "done" =>
                  result[p] = Some(InSteps(p, "saved") /\ InSteps(p, "delivered"))

\* two overlapping calls with the same input, the same alert: one alert was
\* sent, the other raised inside notify_team
C14_Witness ==
    \E p, q \in Procs :
        /\ p # q
        /\ Decided(p) /\ Decided(q)
        /\ SameInput(p, q)
        /\ alerts[p] # <<>> /\ alerts[q] # <<>>
        /\ alerts[p][1].outcome = "sent"
        /\ alerts[q][1].outcome = "raised"
        /\ response_message[p] = response_message[q]

\* the canonical form of a number as the specification words it: the digits
\* of the text, with the country code 92 put in front of a local (leading 0,
\* 11 digits) or a bare 10-digit number, and a leading "+"
Digits(s) == SelectSeq(s, LAMBDA c : c \in DigitChars)

Canonical(s) ==
    LET d == Digits(s) IN
      IF Len(d) >= 12 /\ d[1] = "9" /\ d[2] = "2" THEN <<"+">> \o d
      ELSE IF Len(d) = 11 /\ d[1] = "0" THEN <<"+", "9", "2">> \o Tail(d)
      ELSE IF Len(d) = 10 THEN <<"+", "9", "2">> \o d
      ELSE <<"+">> \o d

Present == {k \in Ids : ~IsNone(store[k])}

\* C15: in every reachable store state there is at most one record per
\* canonical phone number, and every record is stored under a key equal to
\* its phone_number field (and its "_id"), whatever spelling the calls
\* received and however first messages of a new number overlap.
C15_OneRecordPerNumber ==
    /\ \A k \in Present :
         /\ Stored(k).phone_number = k
         /\ Stored(k).id = k
         /\ Canonical(k) = k
    /\ \A k1, k2 \in Present :
         Canonical(Stored(k1).phone_number) = Canonical(Stored(k2).phone_number) => k1 = k2

\* two overlapping first messages of a new number, spelled differently: one
\* call created the record, the insert of the other was refused, one record
C15_Witness ==
    \E p, q \in Procs :
        /\ phone_number[p] # <<>> /\ phone_number[q] # <<>>
        /\ phone_number[p] # phone_number[q]
        /\ CreatedByCall(p)
        /\ InSteps(p, "saved")
        /\ InSteps(q, "insert_failed")
        /\ Cardinality(Present) = 1

Apologies == {NoKeyApology, HttpErrorApology, ExceptionApology}

\* the turns of a record as role/message pairs
AsPairs(turns) == [i \in 1..Len(turns) |-> [role |-> turns[i].role, message |-> turns[i].message]]

\* what a call in the fallback rung hands to the Completion Client and does
\* with its answer
FallbackExchange(p) ==
    LET before == Get(fetched[p]).conversation
        c == Get(completion[p])
        turns == Get(conversation[p]).conversation
    IN /\ ~IsNone(completion[p])
       /\ c.conversation_history = AsPairs(before)
       /\ c.user_message = message_content[p]
       /\ Len(c.messages) = Len(before) + 2
       /\ \A i \in 1..Len(before) :
            /\ c.messages[i + 1].content = before[i].message
            /\ c.messages[i + 1].role = (IF before[i].role = "client" THEN "user" ELSE "assistant")
       /\ c.messages[Len(c.messages)] = [role |-> "user", content |-> message_content[p]]
       /\ response_message[p] = c.reply
       /\ turns[Len(turns)] = ConversationMessage("assistant", c.reply)
       /\ Len(turns) = Len(before) + 2
       /\ (c.upstream # "ok" <=> c.reply \in Apologies)
       /\ pc[p] \in {"replace_one", "send", "done"}
       /\ (InSteps(p, "delivered") => InSteps(p, "saved"))

\* C16: in the fallback rung the Completion Client is handed every turn
\* stored before the call, in order, without the inbound turn just appended,
\* and the inbound text; the text it returns is the reply, unchanged; when
\* the upstream call fails the apology it returns is the reply, appended as
\* the assistant turn, and the save that follows stores the record ending
\* with that turn, and the delivery that follows decides the returned value.
C16_FallbackToCompletionClient ==
    /\ [](\A p \in Procs : rung[p] = 7 => FallbackExchange(p))
    /\ [][\A p \in Procs :
            /\ (rung[p] = 7 /\ pc[p] = "replace_one" /\ pc'[p] = "send") =>
                 LET k == Get(conversation[p]).phone_number
                     stored == Get(store'[k]).conversation
                 IN stored[Len(stored)] = ConversationMessage("assistant", response_message[p])
            /\ (rung[p] = 7 /\ pc[p] = "send" /\ pc'[p] = "done") =>
                 result'[p] = Some(InSteps(p, "delivered")')]_vars

\* the upstream call failed with an HTTP error; the apology was saved and delivered
C16_Witness ==
    \E p \in Procs :
        /\ rung[p] = 7
        /\ Get(completion[p]).upstream = "http_error"
        /\ Len(Get(completion[p]).conversation_history) >= 2
        /\ response_message[p] = HttpErrorApology
        /\ InSteps(p, "saved")
        /\ InSteps(p, "delivered")
        /\ result[p] = Some(TRUE)

\* the groups in the order the specification gives, each with its confidence
\* in tenths
ClaimedGroups ==
    << [type |-> "pricing", patterns |-> pricing_patterns, confidence |-> 9],
       [type |-> "support", patterns |-> support_patterns, confidence |-> 8],
       [type |-> "general", patterns |-> general_patterns, confidence |-> 7],
       [type |-> "greeting", patterns |-> greeting_pattern, confidence |-> 9] >>

\* the groups a text matches: a keyword of the group stands in the
\* lower-cased, trimmed text as a whole word
MatchingGroups(t) ==
    {g \in 1..4 : \E k \in 1..Len(ClaimedGroups[g].patterns) :
                     WordMatch(Strip(Lower(t)), ClaimedGroups[g].patterns[k])}

Classified == ~IsNone(arg) /\ Get(arg).fn = "classify_message" /\ ~IsNone(ret)

\* C17: classify_message returns one result for every text: that of the
\* first group, in the order pricing, support, general, greeting, one of
\* whose patterns the text matches, with the confidence of that group (0.9,
\* 0.8, 0.7, 0.9), and "other" with 0.5 when no group matches; a text that
\* matches a pricing and a support pattern is classified pricing.
C17_FirstGroupWins ==
    Classified =>
        LET t == Get(arg).input
            r == Get(ret)
            M == MatchingGroups(t)
        IN /\ M = {} => (r.type = "other" /\ r.confidence = 5)
           /\ \A g \in M :
                (\A h \in M : g <= h) =>
                    (r.type = ClaimedGroups[g].type /\ r.confidence = ClaimedGroups[g].confidence)
           /\ ({1, 2} \subseteq M => r.type = "pricing")

\* "how much does support cost" matches a pricing and a support pattern and
\* is classified pricing
C17_Witness ==
    /\ Classified
    /\ Get(arg).input = MsgSupportCost
    /\ {1, 2} \subseteq MatchingGroups(MsgSupportCost)
    /\ Get(ret).type = "pricing"
    /\ Get(ret).confidence = 9

Normalized == ~IsNone(arg) /\ Get(arg).fn = "normalize_to_e164" /\ ~IsNone(ret)

Answered == ~IsNone(arg) /\ Get(arg).fn = "whatsapp_webhook" /\ ~IsNone(ret)

\* C19: POST /webhook answers every request with HTTP 200 and a body whose
\* status is "ok", whatever happens while the body is parsed, the secret
\* checked or the engine run, the engine returning false or raising included.
C19_AlwaysOk ==
    Answered =>
        /\ Get(ret).response.status_code = 200
        /\ Get(ret).response.content.status = "ok"

\* the engine raised and the request was answered with 200 and status "ok"
C19_Witness ==
    /\ Answered
    /\ Get(ret).invoked
    /\ Get(ret).engine = "raises"
    /\ Get(ret).response.status_code = 200
    /\ Get(ret).response.content = [status |-> "ok", field |-> "error", value |-> "bot_processing_failed"]

\* the payload is one the handler understands and names a sender
WellFormedWithSender(request) ==
    /\ request.parse = "dict"
    /\ request.shape \in {"nested", "flat", "bracketed"}
    /\ request.phone # <<>>

KeysOf(collection) == {k \in Ids : ~IsNone(collection[k])}

\* the record was saved and fetched again
RoundTripDone == ~IsNone(arg) /\ Get(arg).fn = "save_conversation"
                   /\ ~IsNone(ret) /\ ~IsNone(Get(ret).conversation)

\* C21: a record saved with save_conversation and fetched again with
\* get_or_create_conversation under its phone number comes back with the same
\* turns, messages_used, client_name and status; the fetch changes nothing in
\* the store, and save and fetch together leave one document under the
\* record's key and no document under any key that had none.
C21_SaveThenFetch ==
    RoundTripDone =>
        LET saved == Get(arg).input
            back == Get(Get(ret).conversation)
        IN /\ back.conversation = saved.conversation
           /\ back.messages_used = saved.messages_used
           /\ back.client_name = saved.client_name
           /\ back.status = saved.status
           /\ back.phone_number = saved.phone_number
           /\ store = Get(ret).saved
           /\ KeysOf(store) = KeysOf(Get(ret).before) \cup {saved.phone_number}

\* a finalized record with a name and 19 messages went through the round
\* trip into a store that held an older copy of it
C21_Witness ==
    /\ RoundTripDone
    /\ Get(arg).input.status = "finalized"
    /\ ~Falsy(Get(arg).input.client_name)
    /\ Get(arg).input.messages_used = PriorUsed + 1
    /\ KeysOf(Get(ret).before) # {}

\* the turns of a document are client, assistant, client, assistant, ... and
\* there are two of them for every message counted
TurnsMatchCounter(doc) ==
    /\ Len(doc.conversation) = 2 * doc.messages_used
    /\ \A i \in 1..Len(doc.conversation) :
         doc.conversation[i].role = (IF i % 2 = 1 THEN "client" ELSE "assistant")

\* C22: whatever calls were handled, overlapping ones and ones whose save or
\* delivery failed included, every stored record has exactly 2 x messages_used
\* turns, alternating client, assistant and starting with client.
C22_TurnsMatchCounter ==
    \A k \in Ids : ~IsNone(store[k]) => TurnsMatchCounter(Stored(k))

\* two overlapping calls for one number have both saved, the later one over
\* the earlier one's save, and the record is beyond the one the service
\* started with
C22_Witness ==
    \E p \in Procs, k \in Keys :
        /\ lost[p]
        /\ saved_calls[k] = 2
        /\ ~IsNone(store[k])
        /\ Stored(k).messages_used > prior[k]
        /\ Stored(k).messages_used < prior[k] + handled[k]

\* the call of p ended because the lookup, the insert or the save failed
StoreFailed(p) ==
    InSteps(p, "lookup_failed") \/ InSteps(p, "insert_failed") \/ InSteps(p, "save_failed")

\* the key of the call of p
KeyOf(p) == normalize_to_e164(phone_number[p])

\* the four fields of the claim are the same in a stored document and a record
SameRecord(doc, record) ==
    /\ doc.conversation = record.conversation
    /\ doc.messages_used = record.messages_used
    /\ doc.client_name = record.client_name
    /\ doc.status = record.status

\* the call returns false and neither saved nor tried to deliver
FailsQuietly(p) ==
    /\ result[p] = Some(FALSE)
    /\ ~DeliveryAttempted(p)
    /\ ~InSteps(p, "saved")

\* the step on which a call fails in the store changes nothing in the store
FailingStepKeepsStore ==
    \A p \in Procs : (~StoreFailed(p) /\ StoreFailed(p)') => store' = store

\* C23 (as claimed): a call whose lookup or save fails returns false, attempts
\* no delivery, and leaves the stored record as it was before the call: no
\* record is created and the record that was found keeps its turns,
\* messages_used, client_name and status (no overlapping call saved meanwhile).
C23_FailureLeavesRecord ==
    \A p \in Procs :
        (StoreFailed(p) /\ ~stale[p]) =>
            /\ FailsQuietly(p)
            /\ ~InSteps(p, "created")
            /\ InSteps(p, "found") =>
                 /\ ~IsNone(store[KeyOf(p)])
                 /\ SameRecord(Stored(KeyOf(p)), Get(fetched[p]))

\* C23 (amended): a call whose lookup, insert or save fails returns false,
\* attempts no delivery and saves none of its turns; the failing step itself
\* changes nothing in the store.  When the record was found and the save
\* failed, the stored record keeps the turns, messages_used, client_name and
\* status the call read.  When the number had no record, the lookup created
\* one and the save failed, the store is left with that new record: no turns,
\* messages_used 0, no client_name, status pending (no overlapping call saved
\* meanwhile in either case).
C23_FailureStoresNoTurn ==
    /\ [](\A p \in Procs :
            StoreFailed(p) =>
              /\ FailsQuietly(p)
              /\ (InSteps(p, "found") /\ ~stale[p]) =>
                   /\ ~IsNone(store[KeyOf(p)])
                   /\ SameRecord(Stored(KeyOf(p)), Get(fetched[p]))
              /\ (InSteps(p, "created") /\ ~stale[p]) =>
                   /\ ~IsNone(store[KeyOf(p)])
                   /\ SameRecord(Stored(KeyOf(p)), NewConversation(KeyOf(p))))
    /\ [][FailingStepKeepsStore]_vars

\* a call found a long record, took a completion phrase, and its save failed:
\* the stored record is still the pending one it read
C23_Witness ==
    \E p \in Procs :
        /\ InSteps(p, "save_failed")
        /\ InSteps(p, "found")
        /\ ~stale[p]
        /\ rung[p] = 5
        /\ Stored(KeyOf(p)).status = "pending"
        /\ Stored(KeyOf(p)).messages_used = PriorUsed

\* C24 (as claimed): for one phone number the Completion Client is invoked
\* for at most 19 inbound messages in total, whatever the sequence of inbound
\* messages, overlapping handling calls and failed saves included.
C24_CompletionBudget ==
    ~IsNone(ret) => Get(ret) <= MESSAGE_LIMIT - 1

\* the call of p sent a team alert of the kind, and the gateway accepted it
AlertSent(p, kind) ==
    \E i \in 1..Len(alerts[p]) :
        alerts[p][i].alert.kind = kind /\ alerts[p][i].outcome = "sent"

\* C25 (as claimed): when a handling call that sent a finalization team alert
\* has returned, the stored record of the number has status finalized.
C25_AlertedIsFinalized ==
    \A p \in Procs :
        (pc[p] = "done" /\ AlertSent(p, "finalized")) =>
            /\ ~IsNone(store[KeyOf(p)])
            /\ Stored(KeyOf(p)).status = "finalized"

\* the workflow was run on the chosen record and text
Handled == ~IsNone(arg) /\ Get(arg).fn = "handle_incoming_message" /\ ~IsNone(ret)

\* the kind of team alert each rung stands for, "none" for a rung without one
AlertKindOf(r, type) ==
    CASE r = 3 /\ type = "pricing" -> "pricing"
      [] r = 4 -> "contact"
      [] r = 5 -> "finalized"
      [] r = 6 -> "limit"
      [] OTHER -> "none"

\* C26: handling one inbound message sends at most one team alert: the
\* pricing alert when the classifier rung answers a pricing text, the contact
\* alert on the escalation rung, the finalization alert on the completion rung,
\* the limit alert on the budget rung; the name-collection rungs, the support
\* and greeting canned replies and the fallback rung send none.
C26_AlertOnlyOnFourRungs ==
    Handled =>
        LET w == Get(ret)
            kind == AlertKindOf(w.rung, Classification[Get(arg).input.message_content].type)
        IN /\ Len(w.notify) <= 1
           /\ IsNone(w.notify) <=> kind = "none"
           /\ ~IsNone(w.notify) => Get(w.notify).kind = kind
           /\ (w.rung \in {1, 2, 7}) => IsNone(w.notify)
           /\ (w.rung = 3 /\ Classification[Get(arg).input.message_content].type
                                \in {"support", "greeting"}) => IsNone(w.notify)

\* a greeting was answered with the classifier's canned reply, and no alert
\* went out
C26_Witness ==
    /\ Handled
    /\ Get(ret).rung = 3
    /\ Classification[Get(arg).input.message_content].type = "greeting"
    /\ IsNone(Get(ret).notify)

\* the webhook has normalized the sender
SenderSeen == ~IsNone(arg) /\ Get(arg).fn = "sender" /\ ~IsNone(ret)

\* C27: normalize_to_e164 is idempotent on every input; so the key the engine
\* computes from the sender the webhook has normalized is that sender, which is
\* the key the engine would compute from the raw number, and the recipient
\* send_whatsapp_message computes is the key of the conversation.
C27_NormalizeIdempotent ==
    SenderSeen =>
        LET raw == Get(arg).input
            sender == Get(ret).sender
        IN /\ normalize_to_e164(sender) = sender
           /\ ~IsNone(Get(ret).normalized_phone) =>
                /\ Get(Get(ret).normalized_phone) = sender
                /\ Get(Get(ret).normalized_phone) = normalize_to_e164(raw)
           /\ ~IsNone(Get(ret).recipient) =>
                Get(Get(ret).recipient) = Get(Get(ret).normalized_phone)

\* a number that is none of the four spellings (written with 00 and a
\* separator, so that the first normalization changes it) went all the way to
\* the gateway
C27_Witness ==
    /\ SenderSeen
    /\ ~IsNone(Get(ret).recipient)
    /\ Get(arg).input \notin Spellings
    /\ Get(arg).input # Get(ret).sender
    /\ StartsWith(Get(arg).input, <<"0", "0", "9", "2">>)
====
